---- MODULE Spec2Model ----
(***************************************************************************)
(* Model of the similarity-analysis pipeline of the Image-Processing-App:  *)
(* Docker/run_models.py (the batch entry point), the copy of the same      *)
(* pipeline in tabs/analysis_setup_tab.py (the GUI call site), and the CSV *)
(* reader of tabs/results_tab.py.                                          *)
(*                                                                         *)
(* File names and CSV text are sequences of one-character strings, so      *)
(* that lower(), endswith(), quoting and parsing are computed character by *)
(* character.  Similarities are fixed-point numbers in hundredths.         *)
(***************************************************************************)
EXTENDS Integers, Sequences, FiniteSets, TLC

\* ------------------------------------------------------------------ bounds

\* Largest number of directory entries of the input folder.
MaxFiles == 3
\* Decoded luminance values an image file can hold (1..MaxPixel).
MaxPixel == 2
\* Largest number of directory entries when two runs share the folder.
MaxConcFiles == 2
\* Largest number of images of a DataFrame handed to save_to_csv.
MaxN == 2
\* Largest number of images handed to category_similarity_accuracy.
MaxAccN == 3

\* ------------------------------------------------------------ text helpers

None == "None"

\* File data that PIL cannot open or decode.
Corrupt == 0

\* A case-sensitive filter: lower() left out.
lower_identity(s) == s

\* str.lower() on the characters the model uses.
LowerChar(c) ==
  CASE c = "J" -> "j"
    [] c = "P" -> "p"
    [] c = "G" -> "g"
    [] c = "B" -> "b"
    [] OTHER -> c

lower(s) == [i \in 1..Len(s) |-> LowerChar(s[i])]

endswith(s, suf) ==
  /\ Len(s) >= Len(suf)
  /\ SubSeq(s, Len(s) - Len(suf) + 1, Len(s)) = suf

DotJpg == <<".", "j", "p", "g">>

\* The file names a folder can hold.
NamePool ==
  { <<"a", ".", "j", "p", "g">>,
    <<"b", ".", "J", "P", "G">>,
    <<"a", ",", "b", ".", "j", "p", "g">>,
    <<"j", "p", "g">> }

FileData == {Corrupt} \cup (1..MaxPixel)

RECURSIVE Folders(_)
\* The folders of n directory entries: a listing in os.listdir order of
\* entries with pairwise distinct names.
Folders(n) ==
  IF n = 0 THEN { <<>> }
  ELSE { Append(f, [name |-> nm, data |-> d]) :
           f \in Folders(n - 1),
           nm \in NamePool,
           d \in FileData } \
       { Append(f, [name |-> f[i].name, data |-> d]) :
           f \in Folders(n - 1),
           i \in 1..(n - 1),
           d \in FileData }

AllFolders == UNION { Folders(n) : n \in 0..MaxFiles }

\* --------------------------------------------------------------- load_images

\* Image.open(..).convert("L"), np.stack([img, img, img]), Image.fromarray.
ToThreeChannel(g) == <<g, g, g>>

RECURSIVE load_images_skip(_, _, _)
\* A loader that skips a file it cannot decode and goes on.
load_images_skip(entries, i, acc) ==
  IF i > Len(entries) THEN acc
  ELSE LET e == entries[i] IN
       IF endswith(lower(e.name), DotJpg)
       THEN IF e.data = Corrupt
            THEN load_images_skip(entries, i + 1,
                   [acc EXCEPT !.opened = Append(@, e.name)])
            ELSE load_images_skip(entries, i + 1,
                   [acc EXCEPT !.opened = Append(@, e.name),
                               !.images = Append(@, ToThreeChannel(e.data)),
                               !.image_names = Append(@, e.name)])
       ELSE load_images_skip(entries, i + 1, acc)

RECURSIVE load_images_any(_, _, _)
\* A loader without the suffix filter: every directory entry is opened.
load_images_any(entries, i, acc) ==
  IF i > Len(entries) THEN acc
  ELSE LET e == entries[i] IN
       IF e.data = Corrupt
       THEN [acc EXCEPT !.opened = Append(@, e.name),
                        !.raised = "DecodeFailure"]
       ELSE load_images_any(entries, i + 1,
              [acc EXCEPT !.opened = Append(@, e.name),
                          !.images = Append(@, ToThreeChannel(e.data)),
                          !.image_names = Append(@, e.name)])

RECURSIVE load_images_from(_, _, _)
\* The loop of load_images from directory entry i on, acc the lists built so
\* far.  A file that cannot be decoded raises out of the loop.
load_images_from(entries, i, acc) ==
  IF i > Len(entries) THEN acc
  ELSE LET e == entries[i] IN
       IF endswith(lower(e.name), DotJpg)
       THEN IF e.data = Corrupt
            THEN [acc EXCEPT !.opened = Append(@, e.name),
                             !.raised = "DecodeFailure"]
            ELSE load_images_from(entries, i + 1,
                   [acc EXCEPT !.opened = Append(@, e.name),
                               !.images = Append(@, ToThreeChannel(e.data)),
                               !.image_names = Append(@, e.name)])
       ELSE load_images_from(entries, i + 1, acc)

load_images(entries) ==
  load_images_from(entries, 1,
    [images |-> <<>>, image_names |-> <<>>, opened |-> <<>>, raised |-> None])

\* ------------------------------------------------- load_model, features

ModelNames == {"vgg16", "resnet50", "alexnet"}

\* A load_model without its else branch: it returns nothing and raises nothing.
load_model_no_else(mname) ==
  IF mname = "vgg16" THEN [raised |-> None, backbone |-> "vgg16"]
  ELSE IF mname = "resnet50" THEN [raised |-> None, backbone |-> "resnet50"]
  ELSE [raised |-> None, backbone |-> None]

\* A load_model that falls back to vgg16 for a name it does not know.
load_model_default(mname) ==
  IF mname = "resnet50" THEN [raised |-> None, backbone |-> "resnet50"]
  ELSE [raised |-> None, backbone |-> "vgg16"]

\* The branch of load_model taken for model_name: the backbone whose
\* pretrained weights are loaded, or the ValueError of the else branch.
load_model(mname) ==
  IF mname = "vgg16" THEN [raised |-> None, backbone |-> "vgg16"]
  ELSE IF mname = "resnet50" THEN [raised |-> None, backbone |-> "resnet50"]
  ELSE [raised |-> "ValueError: Not an available model.", backbone |-> None]

\* model(transform(img)) flattened: the backbone with its fixed weights is a
\* fixed function of the image.  vgg16 ends in a linear layer (activations of
\* either sign), resnet50 in a pooled ReLU activation (non-negative, zero
\* for the darkest image).
Embed(backbone, img) ==
  IF backbone = "vgg16" THEN <<img[1], 2 - img[2]>>
  ELSE <<img[1] - 1, (img[2] - 1) * img[3]>>

\* Features inserted at the front of the list instead of appended.
extract_features_reversed(backbone, imgs) ==
  [i \in 1..Len(imgs) |-> Embed(backbone, imgs[Len(imgs) + 1 - i])]

\* extract_features: one vector per image, appended in the order of images.
extract_features(backbone, imgs) ==
  [i \in 1..Len(imgs) |-> Embed(backbone, imgs[i])]

Dot(a, b) == a[1] * b[1] + a[2] * b[2]

ISqrt(n) == CHOOSE k \in 0..100 : k * k <= n /\ n < (k + 1) * (k + 1)

\* One entry of sklearn's cosine_similarity, in hundredths: the rows are
\* normalised (a zero row stays zero) and multiplied.
CosSim(a, b) ==
  LET d == Dot(a, b)
      na == Dot(a, a)
      nb == Dot(b, b)
  IN IF na = 0 \/ nb = 0 THEN 0
     ELSE LET q == ISqrt((10000 * d * d) \div (na * nb))
          IN IF d < 0 THEN 0 - q ELSE q

cosine_similarity(feats) ==
  [i \in 1..Len(feats) |-> [j \in 1..Len(feats) |-> CosSim(feats[i], feats[j])]]

\* pd.DataFrame(sim_matrix, index=image_names, columns=image_names)
DataFrame(sim, names) == [index |-> names, columns |-> names, values |-> sim]

\* ------------------------------------------------------ to_csv / read_csv

Digit(d) == <<"0", "1", "2", "3", "4", "5", "6", "7", "8", "9">>[d + 1]

DigitValue(c) ==
  CASE c = "0" -> 0 [] c = "1" -> 1 [] c = "2" -> 2 [] c = "3" -> 3
    [] c = "4" -> 4 [] c = "5" -> 5 [] c = "6" -> 6 [] c = "7" -> 7
    [] c = "8" -> 8 [] c = "9" -> 9 [] OTHER -> 0 - 1

RECURSIVE DecDigits(_)
DecDigits(n) ==
  IF n < 10 THEN <<Digit(n)>> ELSE Append(DecDigits(n \div 10), Digit(n % 10))

\* The text to_csv writes for a float (its repr): sign, integer part, point,
\* and the fractional digits without trailing zeros, at least one.
FormatFloat(v) ==
  LET a == IF v < 0 THEN 0 - v ELSE v
      ip == a \div 100
      fp == a % 100
      frac == IF fp % 10 = 0 THEN <<Digit(fp \div 10)>>
              ELSE <<Digit(fp \div 10), Digit(fp % 10)>>
  IN (IF v < 0 THEN <<"-">> ELSE <<>>) \o DecDigits(ip) \o <<".">> \o frac

NeedsQuote(field) ==
  \E i \in 1..Len(field) : field[i] \in {",", "\"", "\n", "\r"}

RECURSIVE DoubleQuotes(_)
DoubleQuotes(field) ==
  IF field = <<>> THEN <<>>
  ELSE (IF Head(field) = "\"" THEN <<"\"", "\"">> ELSE <<Head(field)>>)
       \o DoubleQuotes(Tail(field))

\* A writer that never quotes (csv.QUOTE_NONE without an escape character).
QuoteField_none(field) == field

\* csv.QUOTE_MINIMAL, the default of to_csv.
QuoteField(field) ==
  IF NeedsQuote(field) THEN <<"\"">> \o DoubleQuotes(field) \o <<"\"">>
  ELSE field

RECURSIVE WriteFields(_)
WriteFields(fields) ==
  IF Len(fields) = 1 THEN QuoteField(fields[1])
  ELSE QuoteField(Head(fields)) \o <<",">> \o WriteFields(Tail(fields))

WriteRow(fields) == WriteFields(fields) \o <<"\n">>

RECURSIVE WriteRows(_, _)
WriteRows(df, i) ==
  IF i > Len(df.index) THEN <<>>
  ELSE WriteRow(<<df.index[i]>> \o
                [j \in 1..Len(df.columns) |-> FormatFloat(df.values[i][j])])
       \o WriteRows(df, i + 1)

\* df.to_csv(path, index=True): a header row of an empty cell (the unnamed
\* index) and the column labels, then one row per index label.
to_csv(df) == WriteRow(<<<<>>>> \o df.columns) \o WriteRows(df, 1)

RECURSIVE UndoubleQuotes(_)
UndoubleQuotes(field) ==
  IF Len(field) < 2 THEN field
  ELSE IF field[1] = "\"" /\ field[2] = "\""
       THEN <<"\"">> \o UndoubleQuotes(SubSeq(field, 3, Len(field)))
  ELSE <<field[1]>> \o UndoubleQuotes(Tail(field))

QuotesIn(text, a, b) == Cardinality({ k \in a..b : text[k] = "\"" })

\* The closing quote of the quoted field that opens at position s: the
\* first quote after s that is not one half of a doubled quote.
ClosingQuote(text, s) ==
  LET closes(e) == /\ e <= Len(text)
                   /\ text[e] = "\""
                   /\ QuotesIn(text, s + 1, e - 1) % 2 = 0
                   /\ (e = Len(text) \/ text[e + 1] # "\"")
  IN IF \E e \in (s + 1)..Len(text) : closes(e)
     THEN CHOOSE e \in (s + 1)..Len(text) :
            closes(e) /\ \A k \in (s + 1)..(e - 1) : ~closes(k)
     ELSE Len(text) + 1

\* The first separator (comma or line break) at or after position s, or the
\* position after the end of the text.
NextSeparator(text, s) ==
  LET sep(e) == e > Len(text) \/ text[e] \in {",", "\n"}
  IN CHOOSE e \in s..(Len(text) + 1) :
       sep(e) /\ \A k \in s..(e - 1) : ~sep(k)

RECURSIVE Tokenize(_, _, _, _)
\* The rows of fields of a CSV text, read from the field that starts at
\* position s; row holds the fields of the current line read so far.
Tokenize(text, s, row, rows) ==
  IF s > Len(text)
  THEN IF row = <<>> THEN rows ELSE Append(rows, row)
  ELSE LET quoted == text[s] = "\""
           close == IF quoted THEN ClosingQuote(text, s) ELSE s
           e == IF quoted THEN NextSeparator(text, close + 1)
                ELSE NextSeparator(text, s)
           field == IF quoted
                    THEN UndoubleQuotes(SubSeq(text, s + 1, close - 1))
                         \o SubSeq(text, close + 1, e - 1)
                    ELSE SubSeq(text, s, e - 1)
       IN IF e <= Len(text) /\ text[e] = ","
          THEN Tokenize(text, e + 1, Append(row, field), rows)
          ELSE Tokenize(text, e + 1, <<>>, Append(rows, Append(row, field)))

\* The position of the decimal point of a numeral, 0 if it has none.
PointAt(s) ==
  IF \E i \in 1..Len(s) : s[i] = "." THEN CHOOSE i \in 1..Len(s) : s[i] = "."
  ELSE 0

RECURSIVE DigitsValue(_)
DigitsValue(s) ==
  IF s = <<>> THEN 0
  ELSE 10 * DigitsValue(SubSeq(s, 1, Len(s) - 1)) + DigitValue(s[Len(s)])

AllDigits(s) == \A i \in 1..Len(s) : DigitValue(s[i]) >= 0

\* A cell the reader takes for a number: optional sign, digits, optionally a
\* point and digits.
IsNumeric(cell) ==
  LET neg == cell # <<>> /\ cell[1] = "-"
      body == IF neg THEN Tail(cell) ELSE cell
      p == PointAt(body)
      ip == IF p = 0 THEN body ELSE SubSeq(body, 1, p - 1)
      fp == IF p = 0 THEN <<>> ELSE SubSeq(body, p + 1, Len(body))
  IN /\ ip \o fp # <<>>
     /\ AllDigits(ip)
     /\ AllDigits(fp)

\* The value of a numeric cell, in hundredths.
ParseFloat(cell) ==
  LET neg == cell[1] = "-"
      body == IF neg THEN Tail(cell) ELSE cell
      p == PointAt(body)
      ip == IF p = 0 THEN body ELSE SubSeq(body, 1, p - 1)
      fp == IF p = 0 THEN <<>> ELSE SubSeq(body, p + 1, Len(body))
      f1 == IF Len(fp) >= 1 THEN DigitValue(fp[1]) ELSE 0
      f2 == IF Len(fp) >= 2 THEN DigitValue(fp[2]) ELSE 0
      a == 100 * DigitsValue(ip) + 10 * f1 + f2
  IN IF neg THEN 0 - a ELSE a

\* Cell j of a row; a row shorter than the header is filled with empty
\* cells.
CellOf(row, j) == IF j <= Len(row) THEN row[j] ELSE <<>>

\* pd.read_csv(path, index_col=0): the first row is the header, its first
\* cell names the index column; the first cell of every other row is the
\* row's label.  A row with more cells than the header is a ParserError.  A
\* column is numeric when every cell of it is a number and stays text
\* (dtype object) otherwise.
read_csv(text) ==
  LET rows == Tokenize(text, 1, <<>>, <<>>)
      header == IF rows = <<>> THEN <<>> ELSE rows[1]
      n == IF rows = <<>> THEN 0 ELSE Len(rows) - 1
      m == IF header = <<>> THEN 0 ELSE Len(header) - 1
      labels == [i \in 1..n |-> CellOf(rows[i + 1], 1)]
      cells == [i \in 1..n |-> [j \in 1..m |-> CellOf(rows[i + 1], j + 1)]]
      numeric_index == n > 0 /\ \A i \in 1..n : IsNumeric(labels[i])
      numeric_values == \A i \in 1..n : \A j \in 1..m : IsNumeric(cells[i][j])
  IN [raised |-> IF rows = <<>> THEN "EmptyDataError"
                 ELSE IF \E i \in 1..n : Len(rows[i + 1]) > Len(header)
                      THEN "ParserError"
                 ELSE None,
      index_dtype |-> IF numeric_index THEN "numeric" ELSE "object",
      index |-> IF numeric_index THEN [i \in 1..n |-> ParseFloat(labels[i])]
                ELSE labels,
      columns |-> [j \in 1..m |-> header[j + 1]],
      values_dtype |-> IF numeric_values THEN "float64" ELSE "object",
      values |-> IF numeric_values
                 THEN [i \in 1..n |-> [j \in 1..m |-> ParseFloat(cells[i][j])]]
                 ELSE cells]

\* ------------------------------------------------------------------ state

VARIABLES
  variant,          \* "cli": Docker/run_models.py, "gui": AnalysisSetupTab
  folder,           \* the input folder: its entries in os.listdir order
  run,              \* run_cnn_analysis: per run, its arguments and locals
  files,            \* the output files: path -> content
  similarity_data,  \* ResultsTab.similarity_data
  results_msg,      \* the message box ResultsTab showed last
  fx,               \* direct calls of the Feature Extractor
  frame,            \* the DataFrame handed to save_to_csv
  acc,              \* a call of category_similarity_accuracy
  lab,              \* a call of extract_labels
  tab,              \* AnalysisSetupTab: its widgets
  page,             \* ImageModificationPage: its attributes and widgets
  home              \* HomeTab: the loaded image list and its cursor

vars ==
  <<variant, folder, run, files, similarity_data, results_msg, fx, frame, acc,
    lab, tab, page, home>>

ResultNames == { <<"r", "A">>, <<"r", "B">> }

\* No DataFrame yet (the Python None).
NoFrame == [index |-> <<>>, columns |-> <<>>, values |-> <<>>]

NoData ==
  [raised |-> None, index_dtype |-> None, index |-> <<>>, columns |-> <<>>,
   values_dtype |-> None, values |-> <<>>]

NewRun(mname, rname) ==
  [pc |-> "load", model_name |-> mname, result_name |-> rname,
   images |-> <<>>, image_names |-> <<>>, opened |-> <<>>,
   model |-> None, features |-> <<>>, df |-> NoFrame,
   stages |-> <<>>, raised |-> None, stdout |-> <<>>]

FxIdle == [last |-> None, arg |-> None, model |-> None, raised |-> None,
           images |-> <<>>, image_names |-> <<>>, opened |-> <<>>,
           features |-> <<>>]

AccIdle ==
  [sim_matrix |-> <<>>, labels |-> <<>>, called |-> FALSE,
   result |-> [same_class_sims |-> <<>>, diff_class_sims |-> <<>>,
               threshold |-> [nan |-> TRUE, twice |-> 0],
               raised |-> None, correct |-> 0, total |-> 0]]

LabIdle == [image_names |-> <<>>, called |-> FALSE, raised |-> None, labels |-> <<>>]

\* AnalysisSetupTab after construction: no model button checked, no folder
\* selected, an empty name field and an empty status label.  running is the
\* position of on_apply: inside its call of run_cnn_analysis or not.
TabIdle ==
  [vg_button |-> FALSE, res_button |-> FALSE, selected_folder |-> "",
   name_input |-> <<>>, status_label |-> <<"">>, running |-> FALSE]

\* No image (the Python None).
NoImage == [size |-> <<0, 0>>, px |-> <<>>]

\* ImageModificationPage() without an image path.  The last fields record
\* the calls: op the handler that ran last, kind what it did (a permanent
\* operation, an applied filter, or neither), prior the kind of the call
\* before it and the image that was current before it, streak the number
\* of permanent operations in a row, cut whether the last add_to_history
\* dropped forward history, base the current image as last set by anything
\* but an applied filter, edits the number of calls, perm whether the last
\* call completed an operation that replaces the image for good (a
\* permanent operation, a successful load or a confirmed reset), first the
\* image that was current before the first filter applied since the last
\* such operation.
PageIdle ==
  [image_path |-> None,
   original_image |-> NoImage, current_image |-> NoImage,
   modified_image |-> NoImage, history |-> <<>>, history_index |-> 0 - 1,
   pre_filter_image |-> NoImage, image_label |-> NoImage,
   brightness_slider |-> 100, contrast_slider |-> 100, sharpness_slider |-> 100,
   width_spin |-> 800, height_spin |-> 600,
   status_label |-> <<"Ready">>, dialog |-> <<>>,
   op |-> None, kind |-> "other",
   prior |-> [kind |-> "other", image |-> NoImage],
   streak |-> 0, cut |-> FALSE, base |-> NoImage, edits |-> 0,
   perm |-> FALSE, first |-> NoImage]

\* self.current_index = None
NoIndex == 0 - 1

\* HomeTab after construction: no images.  op is the handler that ran last,
\* answer the button clicked in the dialog it showed, if it showed one.
HomeIdle ==
  [image_paths |-> <<>>, current_image_path |-> None, current_index |-> NoIndex,
   status_label |-> <<"Ready to process images", "(0 loaded)">>,
   op |-> None, answer |-> None]

\* ----------------------------------------------------- run_cnn_analysis

OutDir == IF variant = "cli" THEN "OUTPUT_DIR" ELSE "folder"

CsvSuffix ==
  <<"_", "s", "i", "m", "i", "l", "a", "r", "i", "t", "y", ".", "c", "s", "v">>

\* f"{result_name}heatmap.png" in the batch script, "_heatmap.png" in the GUI.
HeatSuffix ==
  IF variant = "cli" THEN <<"h", "e", "a", "t", "m", "a", "p", ".", "p", "n", "g">>
  ELSE <<"_", "h", "e", "a", "t", "m", "a", "p", ".", "p", "n", "g">>

\* A heatmap saved as a JPEG.
heat_path_jpg(rname) == <<OutDir, rname \o <<"_", "h", ".", "j", "p", "g">>>>

csv_path(rname) == <<OutDir, rname \o CsvSuffix>>

heat_path(rname) == <<OutDir, rname \o HeatSuffix>>

RECURSIVE SetToSeq(_)
SetToSeq(S) ==
  IF S = {} THEN <<>>
  ELSE LET x == CHOOSE y \in S : TRUE IN <<x>> \o SetToSeq(S \ {x})

\* os.listdir(folder): the entries of the input folder, and the result
\* files that earlier runs wrote into it (the GUI writes its results into
\* the input folder).  A PNG is an image PIL can decode, a CSV is not.
listdir ==
  LET written == SetToSeq({ p \in DOMAIN files : p[1] = "folder" })
  IN folder \o [k \in 1..Len(written) |->
                  [name |-> written[k][2],
                   data |-> IF files[written[k]].kind = "png" THEN 1 ELSE Corrupt]]

NoImagesError ==
  IF variant = "cli" THEN "ValueError: No JPG images found"
  ELSE "ValueError: No .jpg images"

\* A failure handler that starts the run over.
Fail_retry(r, stage, err) ==
  [run EXCEPT ![r] = [@ EXCEPT !.pc = "load",
                               !.stages = Append(@, stage),
                               !.raised = err]]

Fail(r, stage, err) ==
  [run EXCEPT ![r] = [@ EXCEPT !.pc = "failed",
                               !.stages = Append(@, stage),
                               !.raised = err]]

\* The pipeline of image_comparison, which has no check for an empty list.
LoadOutcome_unchecked(res) ==
  IF res.raised # None THEN [pc |-> "failed", raised |-> res.raised]
  ELSE [pc |-> "load_model", raised |-> None]

\* if len(images) == 0: raise ValueError(...), after load_images returned
\* or raised.
LoadOutcome(res) ==
  IF res.raised # None THEN [pc |-> "failed", raised |-> res.raised]
  ELSE IF Len(res.images) = 0 THEN [pc |-> "failed", raised |-> NoImagesError]
  ELSE [pc |-> "load_model", raised |-> None]

\* images, image_names = load_images(folder); the check for no images.
Load(r) ==
  /\ run[r].pc = "load"
  /\ LET res == load_images(listdir)
         out == LoadOutcome(res)
     IN run' = [run EXCEPT ![r] =
          [@ EXCEPT !.opened = res.opened,
                    !.stages = Append(@, "load"),
                    !.images = IF res.raised = None THEN res.images ELSE @,
                    !.image_names = IF res.raised = None THEN res.image_names ELSE @,
                    !.raised = out.raised,
                    !.pc = out.pc]]
  /\ UNCHANGED <<variant, folder, files, similarity_data, results_msg, fx, frame, acc, lab, tab, page, home>>

\* model = load_model(model_name); the pretrained weights may be unavailable.
LoadModel(r) ==
  /\ run[r].pc = "load_model"
  /\ LET m == load_model(run[r].model_name) IN
       IF m.raised # None
       THEN run' = Fail(r, "load_model", m.raised)
       ELSE \E ok \in BOOLEAN :
              IF ok
              THEN run' = [run EXCEPT ![r] =
                     [@ EXCEPT !.model = m.backbone,
                               !.stages = Append(@, "load_model"),
                               !.pc = "extract"]]
              ELSE run' = Fail(r, "load_model", "OSError: weights")
  /\ UNCHANGED <<variant, folder, files, similarity_data, results_msg, fx, frame, acc, lab, tab, page, home>>

\* features = extract_features(model, images)
Extract(r) ==
  /\ run[r].pc = "extract"
  /\ run' = [run EXCEPT ![r] =
       [@ EXCEPT !.features = extract_features(run[r].model, run[r].images),
                 !.stages = Append(@, "extract"),
                 !.pc = "compare"]]
  /\ UNCHANGED <<variant, folder, files, similarity_data, results_msg, fx, frame, acc, lab, tab, page, home>>

\* sim_matrix = cosine_similarity(features); df = pd.DataFrame(...)
Compare(r) ==
  /\ run[r].pc = "compare"
  /\ run' = [run EXCEPT ![r] =
       [@ EXCEPT !.df = DataFrame(cosine_similarity(run[r].features),
                                  run[r].image_names),
                 !.stages = Append(@, "compare"),
                 !.pc = "csv"]]
  /\ UNCHANGED <<variant, folder, files, similarity_data, results_msg, fx, frame, acc, lab, tab, page, home>>

\* A CSV step that waits while another run is between its two writes.
PersistCsv_locked(r) ==
  /\ run[r].pc = "csv"
  /\ \A q \in DOMAIN run \ {r} : run[q].pc # "heatmap"
  /\ \E ok \in BOOLEAN :
       IF ok
       THEN /\ files' = (csv_path(run[r].result_name) :>
                           [kind |-> "csv", by |-> r, text |-> to_csv(run[r].df)])
                        @@ files
            /\ run' = [run EXCEPT ![r] =
                 [@ EXCEPT !.stages = Append(@, "csv"), !.pc = "heatmap"]]
       ELSE /\ run' = Fail(r, "csv", "OSError: csv")
            /\ UNCHANGED files
  /\ UNCHANGED <<variant, folder, similarity_data, results_msg, fx, frame, acc, lab, tab, page, home>>

\* os.makedirs(OUTPUT_DIR) in the batch script, then df.to_csv(csv_path);
\* either can fail with an OSError.
PersistCsv(r) ==
  /\ run[r].pc = "csv"
  /\ \E ok \in BOOLEAN :
       IF ok
       THEN /\ files' = (csv_path(run[r].result_name) :>
                           [kind |-> "csv", by |-> r, text |-> to_csv(run[r].df)])
                        @@ files
            /\ run' = [run EXCEPT ![r] =
                 [@ EXCEPT !.stages = Append(@, "csv"), !.pc = "heatmap"]]
       ELSE /\ run' = Fail(r, "csv", "OSError: csv")
            /\ UNCHANGED files
  /\ UNCHANGED <<variant, folder, similarity_data, results_msg, fx, frame, acc, lab, tab, page, home>>

\* sns.heatmap(df); plt.savefig(heat_path)
RenderHeatmap(r) ==
  /\ run[r].pc = "heatmap"
  /\ \E ok \in BOOLEAN :
       IF ok
       THEN /\ files' = (heat_path(run[r].result_name) :>
                           [kind |-> "png", by |-> r, image |-> run[r].df])
                        @@ files
            /\ run' = [run EXCEPT ![r] =
                 [@ EXCEPT !.stages = Append(@, "heatmap"),
                           !.pc = IF variant = "cli" THEN "print" ELSE "done"]]
       ELSE /\ run' = Fail(r, "heatmap", "OSError: png")
            /\ UNCHANGED files
  /\ UNCHANGED <<variant, folder, similarity_data, results_msg, fx, frame, acc, lab, tab, page, home>>

\* print("Analysis completed successfully"), the batch script only.
PrintSuccess(r) ==
  /\ run[r].pc = "print"
  /\ run' = [run EXCEPT ![r] =
       [@ EXCEPT !.stdout = Append(@, "Analysis completed successfully"),
                 !.stages = Append(@, "print"),
                 !.pc = "done"]]
  /\ UNCHANGED <<variant, folder, files, similarity_data, results_msg, fx, frame, acc, lab, tab, page, home>>

\* ResultsTab.load_similarity_csv: the user picks a file (or cancels); a
\* file that is no CSV makes read_csv raise, which is reported.
load_similarity_csv ==
  /\ \E p \in DOMAIN files :
       IF files[p].kind = "csv" /\ read_csv(files[p].text).raised = None
       THEN /\ similarity_data' = read_csv(files[p].text)
            /\ results_msg' = "Success"
       ELSE /\ results_msg' = "Error"
            /\ UNCHANGED similarity_data
  /\ UNCHANGED <<variant, folder, run, files, fx, frame, acc, lab, tab, page, home>>

NoFiles == [p \in {} |-> None]

Init ==
  /\ variant \in {"cli", "gui"}
  /\ folder \in AllFolders
  /\ run \in [{1} -> { NewRun(m, <<"r", "A">>) : m \in ModelNames }]
  /\ files = NoFiles
  /\ similarity_data = NoData
  /\ results_msg = None
  /\ fx = FxIdle
  /\ frame = NoFrame
  /\ acc = AccIdle
  /\ lab = LabIdle
  /\ tab = TabIdle
  /\ page = PageIdle
  /\ home = HomeIdle

\* The next statement of run r of run_cnn_analysis.
RunStep ==
  \/ \E r \in DOMAIN run : Load(r)
  \/ \E r \in DOMAIN run : LoadModel(r)
  \/ \E r \in DOMAIN run : Extract(r)
  \/ \E r \in DOMAIN run : Compare(r)
  \/ \E r \in DOMAIN run : PersistCsv(r)
  \/ \E r \in DOMAIN run : RenderHeatmap(r)
  \/ \E r \in DOMAIN run : PrintSuccess(r)

Next ==
  \/ RunStep
  \/ load_similarity_csv

Spec == Init /\ [][Next]_vars

\* Two runs of the same entry point at once, on the same folder.
InitConc ==
  /\ variant \in {"cli", "gui"}
  /\ folder \in UNION { Folders(n) : n \in 0..MaxConcFiles }
  /\ run \in { (1 :> NewRun(m, <<"r", "A">>)) @@ (2 :> NewRun(m, rn)) :
                 m \in ModelNames, rn \in ResultNames }
  /\ files = NoFiles
  /\ similarity_data = NoData
  /\ results_msg = None
  /\ fx = FxIdle
  /\ frame = NoFrame
  /\ acc = AccIdle
  /\ lab = LabIdle
  /\ tab = TabIdle
  /\ page = PageIdle
  /\ home = HomeIdle

SpecConc == InitConc /\ [][RunStep]_vars

\* Two runs at once on the same folder with the same result name, one with
\* each supported model.
InitRace ==
  /\ variant \in {"cli", "gui"}
  /\ folder \in UNION { Folders(n) : n \in 0..MaxConcFiles }
  /\ run = (1 :> NewRun("vgg16", <<"r", "A">>)) @@
           (2 :> NewRun("resnet50", <<"r", "A">>))
  /\ files = NoFiles
  /\ similarity_data = NoData
  /\ results_msg = None
  /\ fx = FxIdle
  /\ frame = NoFrame
  /\ acc = AccIdle
  /\ lab = LabIdle
  /\ tab = TabIdle
  /\ page = PageIdle
  /\ home = HomeIdle

SpecRace == InitRace /\ [][RunStep]_vars

\* ------------------------------------------ the functions called directly

\* images, image_names = load_images(folder)
FxLoadImages ==
  /\ LET res == load_images(listdir) IN
       fx' = [fx EXCEPT !.last = "load_images",
                        !.arg = None,
                        !.opened = res.opened,
                        !.raised = res.raised,
                        !.images = IF res.raised = None THEN res.images ELSE @,
                        !.image_names =
                           IF res.raised = None THEN res.image_names ELSE @]
  /\ UNCHANGED <<variant, folder, run, files, similarity_data, results_msg, frame, acc, lab, tab, page, home>>

\* model = load_model(mname)
FxLoadModel(mname) ==
  /\ LET m == load_model(mname) IN
       fx' = [fx EXCEPT !.last = "load_model",
                        !.arg = mname,
                        !.raised = m.raised,
                        !.model = IF m.raised = None THEN m.backbone ELSE @]
  /\ UNCHANGED <<variant, folder, run, files, similarity_data, results_msg, frame, acc, lab, tab, page, home>>

\* features = extract_features(model, images)
FxExtract ==
  /\ fx.model # None
  /\ fx' = [fx EXCEPT !.last = "extract_features",
                      !.arg = None,
                      !.raised = None,
                      !.features = extract_features(fx.model, fx.images)]
  /\ UNCHANGED <<variant, folder, run, files, similarity_data, results_msg, frame, acc, lab, tab, page, home>>

InitFx ==
  /\ variant = "gui"
  /\ folder \in AllFolders
  /\ run = NoFiles
  /\ files = NoFiles
  /\ similarity_data = NoData
  /\ results_msg = None
  /\ fx = FxIdle
  /\ frame = NoFrame
  /\ acc = AccIdle
  /\ lab = LabIdle
  /\ tab = TabIdle
  /\ page = PageIdle
  /\ home = HomeIdle

NextFx ==
  \/ FxLoadImages
  \/ \E m \in ModelNames : FxLoadModel(m)
  \/ FxExtract

SpecFx == InitFx /\ [][NextFx]_vars

\* ------------------------------------------------------------ save_to_csv

JpgNames == { nm \in NamePool : endswith(lower(nm), DotJpg) }

\* The names load_images can deliver, and one with a quote character.
CsvLabelPool == JpgNames \cup { <<"q", "\"", ".", "j", "p", "g">> }

Samples == <<100, 0, -100, 71, 50, -5>>

RECURSIVE LabelLists(_)
\* The lists of n pairwise distinct image names.
LabelLists(n) ==
  IF n = 0 THEN { <<>> }
  ELSE { Append(l, nm) : l \in LabelLists(n - 1), nm \in CsvLabelPool } \
       { Append(l, l[i]) : l \in LabelLists(n - 1), i \in 1..(n - 1) }

\* The n x n matrix whose entry (i, j) is sample a*i + b*j.
SampleMatrix(n, a, b) ==
  [i \in 1..n |-> [j \in 1..n |->
     Samples[((a * i + b * j) % Len(Samples)) + 1]]]

SampleFrames ==
  { DataFrame(SampleMatrix(Len(l), a, b), l) :
      l \in UNION { LabelLists(n) : n \in 1..MaxN },
      a \in 0..(Len(Samples) - 1),
      b \in 0..(Len(Samples) - 1) }

\* save_to_csv(df, output_path): df.to_csv(output_path, index=True)
save_to_csv(rname) ==
  /\ files' = (csv_path(rname) :>
                 [kind |-> "csv", by |-> 0, text |-> to_csv(frame)]) @@ files
  /\ UNCHANGED <<variant, folder, run, similarity_data, results_msg, fx, frame, acc, lab, tab, page, home>>

InitCsv ==
  /\ variant = "gui"
  /\ folder = <<>>
  /\ run = NoFiles
  /\ files = NoFiles
  /\ similarity_data = NoData
  /\ results_msg = None
  /\ fx = FxIdle
  /\ frame \in SampleFrames
  /\ acc = AccIdle
  /\ lab = LabIdle
  /\ tab = TabIdle
  /\ page = PageIdle
  /\ home = HomeIdle

NextCsv ==
  \/ \E rn \in ResultNames : save_to_csv(rn)
  \/ load_similarity_csv

SpecCsv == InitCsv /\ [][NextCsv]_vars

\* ---------------------------------------------- category_similarity_accuracy

RECURSIVE Insert(_, _)
Insert(x, sorted) ==
  IF sorted = <<>> THEN <<x>>
  ELSE IF x <= Head(sorted) THEN <<x>> \o sorted
  ELSE <<Head(sorted)>> \o Insert(x, Tail(sorted))

RECURSIVE Sort(_)
Sort(l) == IF l = <<>> THEN <<>> ELSE Insert(Head(l), Sort(Tail(l)))

\* A median that takes the upper middle value of a list of even length.
median_upper(l) ==
  LET srt == Sort(l)
      k == Len(l)
  IN IF k = 0 THEN [nan |-> TRUE, twice |-> 0]
     ELSE [nan |-> FALSE, twice |-> 2 * srt[k \div 2 + 1]]

\* np.median: the middle value of the sorted list, the mean of the two
\* middle values of a list of even length, nan for the empty list.  The
\* median is kept as twice its value, so that the mean stays an integer.
median(l) ==
  LET srt == Sort(l)
      k == Len(l)
  IN IF k = 0 THEN [nan |-> TRUE, twice |-> 0]
     ELSE IF k % 2 = 1 THEN [nan |-> FALSE, twice |-> 2 * srt[(k + 1) \div 2]]
     ELSE [nan |-> FALSE, twice |-> srt[k \div 2] + srt[k \div 2 + 1]]

RECURSIVE PairLoop(_, _, _, _, _)
\* for i in range(n): for j in range(i+1, n): the pair (i, j) goes to
\* same_class_sims or to diff_class_sims.  Indices are 1-based here.
PairLoop(sim_matrix, labels, i, j, lists) ==
  LET n == Len(labels) IN
  IF i > n THEN lists
  ELSE IF j > n THEN PairLoop(sim_matrix, labels, i + 1, i + 2, lists)
  ELSE IF labels[i] = labels[j]
       THEN PairLoop(sim_matrix, labels, i, j + 1,
              [lists EXCEPT !.same_class_sims = Append(@, sim_matrix[i][j])])
       ELSE PairLoop(sim_matrix, labels, i, j + 1,
              [lists EXCEPT !.diff_class_sims = Append(@, sim_matrix[i][j])])

RECURSIVE CountAbove(_, _)
\* sum(sim > threshold for sim in sims); a comparison with nan is False.
CountAbove(sims, threshold) ==
  IF sims = <<>> THEN 0
  ELSE (IF ~threshold.nan /\ 2 * Head(sims) > threshold.twice THEN 1 ELSE 0)
       + CountAbove(Tail(sims), threshold)

\* A scorer that guards the division and scores 0 for no same-label pair.
category_similarity_accuracy_guarded(sim_matrix, labels) ==
  LET lists == PairLoop(sim_matrix, labels, 1, 2,
                 [same_class_sims |-> <<>>, diff_class_sims |-> <<>>])
      threshold == median(lists.diff_class_sims)
  IN [same_class_sims |-> lists.same_class_sims,
      diff_class_sims |-> lists.diff_class_sims,
      threshold |-> threshold,
      raised |-> None,
      correct |-> CountAbove(lists.same_class_sims, threshold),
      total |-> Len(lists.same_class_sims)]

\* The accuracy is the fraction correct / total; dividing by an empty
\* same_class_sims raises.
category_similarity_accuracy(sim_matrix, labels) ==
  LET lists == PairLoop(sim_matrix, labels, 1, 2,
                 [same_class_sims |-> <<>>, diff_class_sims |-> <<>>])
      threshold == median(lists.diff_class_sims)
      correct == CountAbove(lists.same_class_sims, threshold)
      total == Len(lists.same_class_sims)
  IN [same_class_sims |-> lists.same_class_sims,
      diff_class_sims |-> lists.diff_class_sims,
      threshold |-> threshold,
      raised |-> IF total = 0 THEN "ZeroDivisionError" ELSE None,
      correct |-> IF total = 0 THEN 0 ELSE correct,
      total |-> total]

NoResult ==
  [same_class_sims |-> <<>>, diff_class_sims |-> <<>>,
   threshold |-> [nan |-> TRUE, twice |-> 0],
   raised |-> None, correct |-> 0, total |-> 0]

LabelPool == { <<"c", "a", "t", "1">>, <<"d", "o", "g", "2">> }

SimSamples == {-50, 50, 100}

\* The symmetric matrices with unit diagonal and entries of SimSamples.
SimMatrices(n) ==
  { [i \in 1..n |-> [j \in 1..n |->
       IF i = j THEN 100 ELSE IF i < j THEN u[<<i, j>>] ELSE u[<<j, i>>]]] :
    u \in [{ <<i, j>> \in (1..n) \X (1..n) : i < j } -> SimSamples] }

RECURSIVE LabelSeqs(_)
LabelSeqs(n) ==
  IF n = 0 THEN { <<>> }
  ELSE { Append(l, x) : l \in LabelSeqs(n - 1), x \in LabelPool }

CallAccuracy ==
  /\ ~acc.called
  /\ acc' = [acc EXCEPT !.called = TRUE,
                        !.result = category_similarity_accuracy(acc.sim_matrix,
                                                                acc.labels)]
  /\ UNCHANGED <<variant, folder, run, files, similarity_data, results_msg, fx, frame, lab, tab, page, home>>

InitAcc ==
  /\ variant = "gui"
  /\ folder = <<>>
  /\ run = NoFiles
  /\ files = NoFiles
  /\ similarity_data = NoData
  /\ results_msg = None
  /\ fx = FxIdle
  /\ frame = NoFrame
  /\ \E n \in 0..MaxAccN :
       acc \in { [sim_matrix |-> m, labels |-> l, called |-> FALSE,
                  result |-> NoResult] :
                 m \in SimMatrices(n), l \in LabelSeqs(n) }
  /\ lab = LabIdle
  /\ tab = TabIdle
  /\ page = PageIdle
  /\ home = HomeIdle

NextAcc == CallAccuracy

SpecAcc == InitAcc /\ [][NextAcc]_vars

\* ----------------------------------------------------------- extract_labels

\* Largest number of names handed to extract_labels.
MaxLabelN == 3

RECURSIVE split(_, _)
\* str.split(sep): the segments between the separators, at least one.
split(s, sep) ==
  IF \A i \in 1..Len(s) : s[i] # sep THEN <<s>>
  ELSE LET d == CHOOSE i \in 1..Len(s) :
                  s[i] = sep /\ \A h \in 1..(i - 1) : s[h] # sep
       IN <<SubSeq(s, 1, d - 1)>> \o split(SubSeq(s, d + 1, Len(s)), sep)

\* s[:k]
Slice(s, k) == SubSeq(s, 1, IF Len(s) < k THEN Len(s) ELSE k)

\* Labels cut from the first segment, name.split(".")[0][:4].
extract_labels_first(image_names) ==
  [raised |-> None,
   labels |-> [i \in 1..Len(image_names) |->
                 Slice(split(image_names[i], ".")[1], 4)]]

\* np.array([name.split(".")[1][:4] for name in image_names]): indexing a
\* one-segment split raises IndexError out of the comprehension.
extract_labels(image_names) ==
  IF \E i \in 1..Len(image_names) : Len(split(image_names[i], ".")) < 2
  THEN [raised |-> "IndexError", labels |-> <<>>]
  ELSE [raised |-> None,
        labels |-> [i \in 1..Len(image_names) |->
                      Slice(split(image_names[i], ".")[2], 4)]]

\* The names extract_labels is called with.
LabelNamePool ==
  { <<"a", ".", "j", "p", "g">>,
    <<"x", ".", "c", "a", "t", "1", "b", ".", "j", "p", "g">>,
    <<"a", ".", "d", "o", "g", "2", "2">>,
    <<"a", ".">>,
    <<"j", "p", "g">> }

RECURSIVE NameLists(_)
NameLists(n) ==
  IF n = 0 THEN { <<>> }
  ELSE { Append(l, nm) : l \in NameLists(n - 1), nm \in LabelNamePool }

CallExtractLabels ==
  /\ ~lab.called
  /\ LET res == extract_labels(lab.image_names) IN
       lab' = [lab EXCEPT !.called = TRUE,
                          !.raised = res.raised,
                          !.labels = res.labels]
  /\ UNCHANGED <<variant, folder, run, files, similarity_data, results_msg, fx, frame, acc, tab, page, home>>

InitLabels ==
  /\ variant = "gui"
  /\ folder = <<>>
  /\ run = NoFiles
  /\ files = NoFiles
  /\ similarity_data = NoData
  /\ results_msg = None
  /\ fx = FxIdle
  /\ frame = NoFrame
  /\ acc = AccIdle
  /\ lab \in { [LabIdle EXCEPT !.image_names = l] :
                l \in UNION { NameLists(n) : n \in 0..MaxLabelN } }
  /\ tab = TabIdle
  /\ page = PageIdle
  /\ home = HomeIdle

NextLabels == CallExtractLabels

SpecLabels == InitLabels /\ [][NextLabels]_vars

\* ------------------------------------- image_comparison: loader, then labels

\* Largest number of directory entries of a folder whose names are labelled.
MaxPathFiles == 3

\* The file names of such a folder.
PathNamePool ==
  { <<"a", ".", "j", "p", "g">>,
    <<"b", ".", "j", "p", "g">>,
    <<"b", ".", "J", "P", "G">>,
    <<"x", ".", "c", "a", "t", "1", "b", ".", "j", "p", "g">>,
    <<".", "j", "p", "g">>,
    <<"a", ".", "p", "n", "g">>,
    <<"j", "p", "g">> }

RECURSIVE PathFolders(_)
PathFolders(n) ==
  IF n = 0 THEN { <<>> }
  ELSE { Append(f, [name |-> nm, data |-> d]) :
           f \in PathFolders(n - 1),
           nm \in PathNamePool,
           d \in {Corrupt, 1} } \
       { Append(f, [name |-> f[i].name, data |-> d]) :
           f \in PathFolders(n - 1),
           i \in 1..(n - 1),
           d \in {Corrupt, 1} }

\* labels = self.extract_labels(image_names), reached in image_comparison
\* when load_images and the steps after it raised nothing.
LabelsOfLoaded ==
  /\ fx.last = "load_images"
  /\ fx.raised = None
  /\ ~lab.called
  /\ LET res == extract_labels(fx.image_names) IN
       lab' = [lab EXCEPT !.image_names = fx.image_names,
                          !.called = TRUE,
                          !.raised = res.raised,
                          !.labels = res.labels]
  /\ UNCHANGED <<variant, folder, run, files, similarity_data, results_msg, fx, frame, acc, tab, page, home>>

InitPath ==
  /\ variant = "gui"
  /\ folder \in UNION { PathFolders(n) : n \in 0..MaxPathFiles }
  /\ run = NoFiles
  /\ files = NoFiles
  /\ similarity_data = NoData
  /\ results_msg = None
  /\ fx = FxIdle
  /\ frame = NoFrame
  /\ acc = AccIdle
  /\ lab = LabIdle
  /\ tab = TabIdle
  /\ page = PageIdle
  /\ home = HomeIdle

NextPath ==
  \/ fx.last = None /\ FxLoadImages
  \/ LabelsOfLoaded

SpecPath == InitPath /\ [][NextPath]_vars

\* ------------------------------------------------ AnalysisSetupTab.on_apply

RECURSIVE lstrip(_)
lstrip(s) == IF s # <<>> /\ Head(s) = " " THEN lstrip(Tail(s)) ELSE s

RECURSIVE rstrip(_)
rstrip(s) ==
  IF s # <<>> /\ s[Len(s)] = " " THEN rstrip(SubSeq(s, 1, Len(s) - 1)) ELSE s

\* str.strip()
strip(s) == rstrip(lstrip(s))

\* str(e): the message of the exception, without its class.
ExcMessage(e) ==
  CASE e = "ValueError: No .jpg images" -> "No .jpg images"
    [] e = "ValueError: Not an available model." -> "Not an available model."
    [] e = "DecodeFailure" -> "cannot identify image file"
    [] e = "OSError: weights" -> "weights"
    [] e = "OSError: csv" -> "csv"
    [] e = "OSError: png" -> "png"
    [] OTHER -> e

\* except Exception as e: self.status_label.setText(f"Error: {e}")
on_apply_except(e) == <<"Error: ", ExcMessage(e)>>

\* The Apply button: the three checks, each with its status and an early
\* return, then the status "Running analysis..." and the call of
\* run_cnn_analysis with the selected folder.
on_apply ==
  /\ ~tab.running
  /\ IF ~tab.vg_button /\ ~tab.res_button
     THEN /\ tab' = [tab EXCEPT !.status_label = <<"Please select a model">>]
          /\ UNCHANGED run
     ELSE IF tab.selected_folder = ""
     THEN /\ tab' = [tab EXCEPT !.status_label = <<"Please select an image folder">>]
          /\ UNCHANGED run
     ELSE IF strip(tab.name_input) = <<>>
     THEN /\ tab' = [tab EXCEPT !.status_label = <<"Enter name for result files">>]
          /\ UNCHANGED run
     ELSE /\ tab' = [tab EXCEPT !.status_label = <<"Running analysis...">>,
                                !.running = TRUE]
          /\ run' = (1 :> NewRun(IF tab.vg_button THEN "vgg16" ELSE "resnet50",
                                 strip(tab.name_input)))
  /\ UNCHANGED <<variant, folder, files, similarity_data, results_msg, fx, frame, acc, lab, page, home>>

\* A return without the except clause: a failure leaves the status alone.
on_apply_return_silent ==
  /\ tab.running
  /\ run[1].pc \in {"done", "failed"}
  /\ tab' = [tab EXCEPT !.running = FALSE,
                        !.status_label =
                           IF run[1].pc = "done" THEN <<"Analysis Complete">>
                           ELSE @]
  /\ UNCHANGED <<variant, folder, run, files, similarity_data, results_msg, fx, frame, acc, lab, page, home>>

\* run_cnn_analysis returned or raised: the status after the try statement.
on_apply_return ==
  /\ tab.running
  /\ run[1].pc \in {"done", "failed"}
  /\ tab' = [tab EXCEPT !.running = FALSE,
                        !.status_label =
                           IF run[1].pc = "done" THEN <<"Analysis Complete">>
                           ELSE on_apply_except(run[1].raised)]
  /\ UNCHANGED <<variant, folder, run, files, similarity_data, results_msg, fx, frame, acc, lab, page, home>>

\* The text of the name field when Apply is clicked.
NameInputs == { <<>>, <<" ">>, <<" ", "r", "A", " ">> }

InitApply ==
  /\ variant = "gui"
  /\ folder \in UNION { Folders(n) : n \in 0..MaxConcFiles }
  /\ run = NoFiles
  /\ files = NoFiles
  /\ similarity_data = NoData
  /\ results_msg = None
  /\ fx = FxIdle
  /\ frame = NoFrame
  /\ acc = AccIdle
  /\ lab = LabIdle
  /\ tab \in { [TabIdle EXCEPT !.vg_button = (b = "vgg16"),
                               !.res_button = (b = "resnet50"),
                               !.selected_folder = f,
                               !.name_input = nm] :
                b \in {None, "vgg16", "resnet50"},
                f \in {"", "folder"},
                nm \in NameInputs }
  /\ page = PageIdle
  /\ home = HomeIdle

\* The statements of AnalysisSetupTab.run_cnn_analysis, which prints nothing.
NextApply ==
  \/ on_apply
  \/ tab.running /\ Load(1)
  \/ tab.running /\ LoadModel(1)
  \/ tab.running /\ Extract(1)
  \/ tab.running /\ Compare(1)
  \/ tab.running /\ PersistCsv(1)
  \/ tab.running /\ RenderHeatmap(1)
  \/ on_apply_return

SpecApply == InitApply /\ [][NextApply]_vars

\* ---------------------------------------------- ImageModificationPage: images

\* Largest number of handler calls on a page holding a patterned picture.
MaxEdits == 5

\* if len(self.history) > 50
HistoryLimit == 50

\* An image is a grid of grey pixels (R = G = B) of at most two by two:
\* size is <<width, height>>, px the rows from top to bottom.
Width(img) == img.size[1]

Height(img) == img.size[2]

\* The image files the user can open.
Pictures ==
  ("pattern.png" :> [size |-> <<2, 1>>, px |-> << <<40, 120>> >>]) @@
  ("flat.png" :> [size |-> <<1, 1>>, px |-> << <<0>> >>])

\* A path Image.open fails on.
Paths == DOMAIN Pictures \cup {"broken.png"}

\* Image.transpose(FLIP_LEFT_RIGHT)
FlipLeftRight(img) ==
  [size |-> img.size,
   px |-> [r \in 1..Height(img) |-> [c \in 1..Width(img) |->
             img.px[r][Width(img) + 1 - c]]]]

\* Image.transpose(FLIP_TOP_BOTTOM)
FlipTopBottom(img) ==
  [size |-> img.size,
   px |-> [r \in 1..Height(img) |-> [c \in 1..Width(img) |->
             img.px[Height(img) + 1 - r][c]]]]

\* Image.rotate(angle, expand=True) for a multiple of 90 degrees, which PIL
\* performs as a transposition: counter-clockwise by angle modulo 360.
Rotate(img, angle) ==
  LET a == angle % 360
      w == Width(img)
      h == Height(img)
  IN CASE a = 0 -> img
       [] a = 90 ->
            [size |-> <<h, w>>,
             px |-> [r \in 1..w |-> [c \in 1..h |-> img.px[c][w + 1 - r]]]]
       [] a = 180 ->
            [size |-> <<w, h>>,
             px |-> [r \in 1..h |-> [c \in 1..w |-> img.px[h + 1 - r][w + 1 - c]]]]
       [] a = 270 ->
            [size |-> <<h, w>>,
             px |-> [r \in 1..w |-> [c \in 1..h |-> img.px[h + 1 - c][r]]]]

\* One line of pixels resampled with the Lanczos filter: two pixels shrink
\* to their mean (equal weights, rounded), one pixel is repeated.
ResampleLine(line, n) ==
  IF n = Len(line) THEN line
  ELSE IF n = 1 THEN << (line[1] + line[2] + 1) \div 2 >>
  ELSE <<line[1], line[1]>>

\* Image.resize((w, h), LANCZOS): a copy for the same size, else a
\* horizontal pass and a vertical pass.
Resize(img, w, h) ==
  LET rows == [r \in 1..Height(img) |-> ResampleLine(img.px[r], w)]
      col(c) == ResampleLine([r \in 1..Height(img) |-> rows[r][c]], h)
  IN [size |-> <<w, h>>, px |-> [r \in 1..h |-> [c \in 1..w |-> col(c)[r]]]]

\* ImageEnhance.Brightness(img).enhance(v / 100.0): the blend of a black
\* image with img, truncated and clipped to 255.
Brightness(img, v) ==
  [size |-> img.size,
   px |-> [r \in 1..Height(img) |-> [c \in 1..Width(img) |->
             IF (img.px[r][c] * v) \div 100 > 255 THEN 255
             ELSE (img.px[r][c] * v) \div 100]]]

\* The sum of the pixels of an image of at most two by two.
PixelSum(img) ==
  LET line(r) == IF Width(img) = 1 THEN img.px[r][1]
                 ELSE img.px[r][1] + img.px[r][2]
  IN IF Height(img) = 1 THEN line(1) ELSE line(1) + line(2)

\* ImageEnhance.Contrast(img).enhance(v / 100.0): the blend of a plain
\* image of the rounded mean grey with img, truncated, and clipped to
\* 0..255 when it extrapolates.
Contrast(img, v) ==
  LET count == Width(img) * Height(img)
      mean == (2 * PixelSum(img) + count) \div (2 * count)
      blend(p) == 100 * mean + v * (p - mean)
  IN [size |-> img.size,
      px |-> [r \in 1..Height(img) |-> [c \in 1..Width(img) |->
                IF blend(img.px[r][c]) <= 0 THEN 0
                ELSE IF blend(img.px[r][c]) >= 25500 THEN 255
                ELSE blend(img.px[r][c]) \div 100]]]

\* ImageEnhance.Sharpness(img).enhance(v / 100.0): the blend of
\* img.filter(SMOOTH) with img.  An image smaller than the three by three
\* kernel is copied by the filter, so both images of the blend are img.
Sharpness(img, v) == img

\* One line of pixels box-blurred with the given radius: the mean of the
\* 2 * radius + 1 pixels around each pixel, the edge pixels repeated
\* beyond the line, rounded to the nearest integer.
BlurLine(line, radius) ==
  IF Len(line) = 1 THEN line
  ELSE LET den == 2 * radius + 1
           near(k) == ((radius + 1) * line[k] + radius * line[3 - k])
       IN [k \in 1..2 |-> (2 * near(k) + den) \div (2 * den)]

\* Image.filter(ImageFilter.BoxBlur(radius)): a horizontal and a vertical pass.
BoxBlur(img, radius) ==
  LET rows == [r \in 1..Height(img) |-> BlurLine(img.px[r], radius)]
      col(c) == BlurLine([r \in 1..Height(img) |-> rows[r][c]], radius)
  IN [size |-> img.size,
      px |-> [r \in 1..Height(img) |-> [c \in 1..Width(img) |-> col(c)[r]]]]

\* -------------------------------------------- ImageModificationPage: handlers

NotPage ==
  <<variant, folder, run, files, similarity_data, results_msg, fx, frame, acc,
    lab, tab, home>>

\* The call counter, which stops counting at MaxEdits.
Counted(pg) == IF pg.edits < MaxEdits THEN pg.edits + 1 ELSE pg.edits

\* The record of a call that performed a permanent operation on pg0.
Permanent(pg0, pg1, name) ==
  [pg1 EXCEPT !.op = name,
              !.kind = "permanent",
              !.prior = [kind |-> pg0.kind, image |-> pg0.current_image],
              !.streak = IF pg0.streak <= HistoryLimit THEN pg0.streak + 1
                         ELSE pg0.streak,
              !.cut = Len(pg0.history) > pg0.history_index + 1,
              !.base = pg1.current_image,
              !.edits = Counted(pg0),
              !.perm = TRUE,
              !.first = NoImage]

\* The record of a call that applied a filter to pg0.
Filtered(pg0, pg1, name) ==
  [pg1 EXCEPT !.op = name,
              !.kind = "filter",
              !.prior = [kind |-> pg0.kind, image |-> pg0.current_image],
              !.streak = 0,
              !.cut = FALSE,
              !.edits = Counted(pg0),
              !.perm = FALSE,
              !.first = IF pg0.first = NoImage THEN pg0.current_image
                        ELSE pg0.first]

\* The record of any other call.
Other(pg0, pg1, name) ==
  [pg1 EXCEPT !.op = name,
              !.kind = "other",
              !.prior = [kind |-> pg0.kind, image |-> pg0.current_image],
              !.streak = 0,
              !.cut = IF name = "redo" THEN pg0.cut ELSE FALSE,
              !.base = IF pg1.current_image # pg0.current_image
                       THEN pg1.current_image ELSE pg0.base,
              !.edits = Counted(pg0),
              !.perm = FALSE]

\* The record of a call that replaced the image without a history entry of
\* its own: a successful load_image or a confirmed reset_to_original.
Replaced(pg0, pg1, name) ==
  [Other(pg0, pg1, name) EXCEPT !.perm = TRUE, !.first = NoImage]

\* A history without the cap: nothing is popped.
add_to_history_uncapped(pg, image) ==
  [pg EXCEPT !.history = Append(SubSeq(pg.history, 1, pg.history_index + 1), image),
             !.history_index = pg.history_index + 1]

\* A history that keeps the forward entries: the image is appended to the
\* whole list.
add_to_history_keep(pg, image) ==
  LET h == Append(pg.history, image)
      i == pg.history_index + 1
  IN IF Len(h) > HistoryLimit
     THEN [pg EXCEPT !.history = Tail(h), !.history_index = i - 1]
     ELSE [pg EXCEPT !.history = h, !.history_index = i]

\* add_to_history: the forward history is dropped, the image appended, and
\* the oldest entry popped when the list exceeds 50 entries.
add_to_history(pg, image) ==
  LET h == Append(SubSeq(pg.history, 1, pg.history_index + 1), image)
      i == pg.history_index + 1
  IN IF Len(h) > HistoryLimit
     THEN [pg EXCEPT !.history = Tail(h), !.history_index = i - 1]
     ELSE [pg EXCEPT !.history = h, !.history_index = i]

\* display_image(pil_image)
display_image(pg, image) == [pg EXCEPT !.image_label = image]

\* update_preview: the preview of current_image under the sliders, each
\* enhancer skipped when its slider is at 100.
update_preview(pg) ==
  IF pg.current_image = NoImage THEN pg
  ELSE LET bright == IF pg.brightness_slider # 100
                     THEN Brightness(pg.current_image, pg.brightness_slider)
                     ELSE pg.current_image
           contrasted == IF pg.contrast_slider # 100
                         THEN Contrast(bright, pg.contrast_slider)
                         ELSE bright
           preview == IF pg.sharpness_slider # 100
                      THEN Sharpness(contrasted, pg.sharpness_slider)
                      ELSE contrasted
       IN [display_image(pg, preview) EXCEPT !.modified_image = preview]

\* brightness_slider.setValue(v): valueChanged runs update_preview when the
\* value changes.
SetBrightness(pg, v) ==
  IF pg.brightness_slider = v THEN pg
  ELSE update_preview([pg EXCEPT !.brightness_slider = v])

\* contrast_slider.setValue(v)
SetContrast(pg, v) ==
  IF pg.contrast_slider = v THEN pg
  ELSE update_preview([pg EXCEPT !.contrast_slider = v])

\* sharpness_slider.setValue(v)
SetSharpness(pg, v) ==
  IF pg.sharpness_slider = v THEN pg
  ELSE update_preview([pg EXCEPT !.sharpness_slider = v])

\* The three sliders set to 100, in the order of the code.
ResetSliders(pg) == SetSharpness(SetContrast(SetBrightness(pg, 100), 100), 100)

\* A load that forgets the old image before it opens the file.
load_image_clearing(pg, path) ==
  IF path \in DOMAIN Pictures
  THEN LET img == Pictures[path] IN
       [pg EXCEPT !.image_path = path,
                  !.original_image = img,
                  !.current_image = img,
                  !.pre_filter_image = NoImage,
                  !.history = <<img>>,
                  !.history_index = 0,
                  !.width_spin = Width(img),
                  !.height_spin = Height(img),
                  !.image_label = img,
                  !.status_label = <<"Loaded", path>>]
  ELSE [pg EXCEPT !.image_path = path,
                  !.original_image = NoImage,
                  !.current_image = NoImage,
                  !.pre_filter_image = NoImage,
                  !.history = <<>>,
                  !.history_index = 0 - 1,
                  !.dialog = <<"Error", "Failed to load image">>]

\* The body of load_image: the path is stored before the file is opened; a
\* file that cannot be opened is reported in a message box.
load_image_body(pg, path) ==
  IF path \in DOMAIN Pictures
  THEN LET img == Pictures[path] IN
       [pg EXCEPT !.image_path = path,
                  !.original_image = img,
                  !.current_image = img,
                  !.pre_filter_image = NoImage,
                  !.history = <<img>>,
                  !.history_index = 0,
                  !.width_spin = Width(img),
                  !.height_spin = Height(img),
                  !.image_label = img,
                  !.status_label = <<"Loaded", path>>]
  ELSE [pg EXCEPT !.image_path = path,
                  !.dialog = <<"Error", "Failed to load image">>]

\* load_image(image_path), from the file dialog.
load_image(path) ==
  /\ page' = IF path \in DOMAIN Pictures
             THEN Replaced(page, load_image_body(page, path), "load_image")
             ELSE Other(page, load_image_body(page, path), "load_image")
  /\ UNCHANGED NotPage

\* A rotation that keeps the pre-filter image.
rotate_image_keep(degrees) ==
  /\ page.current_image # NoImage
  /\ LET rotated == Rotate(page.current_image, 0 - degrees)
         pg == add_to_history([page EXCEPT !.current_image = rotated], rotated)
     IN page' = Permanent(page,
                  [display_image(pg, rotated) EXCEPT
                     !.status_label = <<"Rotated", ToString(degrees)>>],
                  "rotate_image")
  /\ UNCHANGED NotPage

\* rotate_image(degrees) of the two rotate buttons.
rotate_image(degrees) ==
  /\ page.current_image # NoImage
  /\ LET rotated == Rotate(page.current_image, 0 - degrees)
         pg == add_to_history([page EXCEPT !.current_image = rotated], rotated)
     IN page' = Permanent(page,
                  [display_image(pg, rotated) EXCEPT
                     !.pre_filter_image = NoImage,
                     !.status_label = <<"Rotated", ToString(degrees)>>],
                  "rotate_image")
  /\ UNCHANGED NotPage

flip_horizontal ==
  /\ page.current_image # NoImage
  /\ LET flipped == FlipLeftRight(page.current_image)
         pg == add_to_history([page EXCEPT !.current_image = flipped], flipped)
     IN page' = Permanent(page,
                  [display_image(pg, flipped) EXCEPT
                     !.pre_filter_image = NoImage,
                     !.status_label = <<"Flipped horizontally">>],
                  "flip_horizontal")
  /\ UNCHANGED NotPage

flip_vertical ==
  /\ page.current_image # NoImage
  /\ LET flipped == FlipTopBottom(page.current_image)
         pg == add_to_history([page EXCEPT !.current_image = flipped], flipped)
     IN page' = Permanent(page,
                  [display_image(pg, flipped) EXCEPT
                     !.pre_filter_image = NoImage,
                     !.status_label = <<"Flipped vertically">>],
                  "flip_vertical")
  /\ UNCHANGED NotPage

\* The positions the user moves a slider to.
SliderValues == {50, 100, 200}

\* The user moves the brightness slider to v.
brightness_changed(v) ==
  /\ v # page.brightness_slider
  /\ page' = Other(page, SetBrightness(page, v), "update_preview")
  /\ UNCHANGED NotPage

\* The user moves the contrast slider to v.
contrast_changed(v) ==
  /\ v # page.contrast_slider
  /\ page' = Other(page, SetContrast(page, v), "update_preview")
  /\ UNCHANGED NotPage

\* The user moves the sharpness slider to v.
sharpness_changed(v) ==
  /\ v # page.sharpness_slider
  /\ page' = Other(page, SetSharpness(page, v), "update_preview")
  /\ UNCHANGED NotPage

\* Adjustments applied to the original image as well.
apply_adjustments_rebase(pg) ==
  IF pg.modified_image # NoImage
  THEN LET applied == [pg EXCEPT !.current_image = pg.modified_image,
                                 !.original_image = pg.modified_image]
           stored == add_to_history(applied, applied.current_image)
       IN [ResetSliders([stored EXCEPT !.pre_filter_image = NoImage])
             EXCEPT !.status_label = <<"Adjustments applied">>]
  ELSE [pg EXCEPT !.status_label = <<"No adjustments to apply">>]

\* The body of apply_adjustments: the preview becomes the current image and
\* a history entry, and the sliders go back to 100.
apply_adjustments_body(pg) ==
  IF pg.modified_image # NoImage
  THEN LET applied == [pg EXCEPT !.current_image = pg.modified_image]
           stored == add_to_history(applied, applied.current_image)
       IN [ResetSliders([stored EXCEPT !.pre_filter_image = NoImage])
             EXCEPT !.status_label = <<"Adjustments applied">>]
  ELSE [pg EXCEPT !.status_label = <<"No adjustments to apply">>]

apply_adjustments ==
  /\ page' = IF page.modified_image # NoImage
             THEN Permanent(page, apply_adjustments_body(page), "apply_adjustments")
             ELSE Other(page, apply_adjustments_body(page), "apply_adjustments")
  /\ UNCHANGED NotPage

\* The entries of filter_combo the model uses, and the values of box_blur_spin.
FilterNames == {"None", "Box Blur"}

BlurRadii == {1, 2}

\* A filter applied to the current image, on top of an earlier filter.
apply_filter_stacking(pg, radius) ==
  LET base == IF pg.pre_filter_image = NoImage THEN pg.current_image
              ELSE pg.pre_filter_image
      filtered == BoxBlur(pg.current_image, radius)
  IN [display_image(pg, filtered) EXCEPT
        !.pre_filter_image = base,
        !.current_image = filtered,
        !.status_label = <<"Applied Box Blur", ToString(radius)>>]

\* The try block of apply_filter for Box Blur: the pre-filter image is saved
\* once, and the filter is applied to it.
apply_filter_body(pg, radius) ==
  LET base == IF pg.pre_filter_image = NoImage THEN pg.current_image
              ELSE pg.pre_filter_image
      filtered == BoxBlur(base, radius)
  IN [display_image(pg, filtered) EXCEPT
        !.pre_filter_image = base,
        !.current_image = filtered,
        !.status_label = <<"Applied Box Blur", ToString(radius)>>]

\* apply_filter with filter_combo at filter_name and box_blur_spin at radius.
apply_filter(filter_name, radius) ==
  /\ page.current_image # NoImage
  /\ page' =
       IF filter_name = "None"
       THEN IF page.pre_filter_image # NoImage
            THEN Other(page,
                   [display_image(page, page.pre_filter_image) EXCEPT
                      !.current_image = page.pre_filter_image,
                      !.status_label = <<"Filter removed - reverted to original state">>],
                   "apply_filter")
            ELSE Other(page,
                   [page EXCEPT !.status_label = <<"No filter to remove">>],
                   "apply_filter")
       ELSE Filtered(page, apply_filter_body(page, radius), "apply_filter")
  /\ UNCHANGED NotPage

\* The sides the user sets the size spin boxes to.
Sides == {1, 2}

\* The user edits width_spin and height_spin.
size_changed(w, h) ==
  /\ page.current_image # NoImage
  /\ <<w, h>> # <<page.width_spin, page.height_spin>>
  /\ page' = Other(page, [page EXCEPT !.width_spin = w, !.height_spin = h],
                   "size_changed")
  /\ UNCHANGED NotPage

resize_image ==
  /\ page.current_image # NoImage
  /\ LET resized == Resize(page.current_image, page.width_spin, page.height_spin)
         pg == add_to_history([page EXCEPT !.current_image = resized], resized)
     IN page' = Permanent(page,
                  [display_image(pg, resized) EXCEPT
                     !.pre_filter_image = NoImage,
                     !.status_label = <<"Resized to", ToString(page.width_spin),
                                        ToString(page.height_spin)>>],
                  "resize_image")
  /\ UNCHANGED NotPage

undo_body(pg) ==
  IF pg.history_index > 0
  THEN LET image == pg.history[pg.history_index]
       IN [display_image(pg, image) EXCEPT
             !.history_index = pg.history_index - 1,
             !.current_image = image,
             !.pre_filter_image = NoImage,
             !.status_label = <<"Undo">>]
  ELSE [pg EXCEPT !.status_label = <<"Nothing to undo">>]

undo ==
  /\ page' = Other(page, undo_body(page), "undo")
  /\ UNCHANGED NotPage

\* A redo that moves the index and leaves the current image alone.
redo_index_only(pg) ==
  IF pg.history_index < Len(pg.history) - 1
  THEN [pg EXCEPT !.history_index = pg.history_index + 1,
                  !.pre_filter_image = NoImage,
                  !.status_label = <<"Redo">>]
  ELSE [pg EXCEPT !.status_label = <<"Nothing to redo">>]

redo_body(pg) ==
  IF pg.history_index < Len(pg.history) - 1
  THEN LET image == pg.history[pg.history_index + 2]
       IN [display_image(pg, image) EXCEPT
             !.history_index = pg.history_index + 1,
             !.current_image = image,
             !.pre_filter_image = NoImage,
             !.status_label = <<"Redo">>]
  ELSE [pg EXCEPT !.status_label = <<"Nothing to redo">>]

redo ==
  /\ page' = Other(page, redo_body(page), "redo")
  /\ UNCHANGED NotPage

\* A reset that does not wait for the answer.
reset_to_original_unasked(reply) ==
  /\ page.original_image # NoImage
  /\ page' =
       LET pg == [page EXCEPT !.current_image = page.original_image,
                              !.history = <<page.original_image>>,
                              !.history_index = 0]
           done == [display_image(ResetSliders(pg), pg.current_image) EXCEPT
                      !.pre_filter_image = NoImage,
                      !.status_label = <<"Reset to original">>]
       IN IF reply = "Yes" THEN Replaced(page, done, "reset_to_original")
          ELSE Other(page, done, "reset_to_original")
  /\ UNCHANGED NotPage

\* reset_to_original with the answer to its question box.
reset_to_original(reply) ==
  /\ page.original_image # NoImage
  /\ page' =
       IF reply = "Yes"
       THEN LET pg == [page EXCEPT !.current_image = page.original_image,
                                   !.history = <<page.original_image>>,
                                   !.history_index = 0]
            IN Replaced(page,
                 [display_image(ResetSliders(pg), pg.current_image) EXCEPT
                    !.pre_filter_image = NoImage,
                    !.status_label = <<"Reset to original">>],
                 "reset_to_original")
       ELSE Other(page, page, "reset_to_original")
  /\ UNCHANGED NotPage

\* The handlers of the buttons and sliders of a page that holds an image.
Edit ==
  \/ \E d \in {90, 0 - 90} : rotate_image(d)
  \/ flip_horizontal
  \/ flip_vertical
  \/ resize_image
  \/ \E v \in SliderValues : brightness_changed(v)
  \/ apply_adjustments
  \/ \E f \in FilterNames, r \in BlurRadii : apply_filter(f, r)
  \/ undo
  \/ redo
  \/ \E reply \in {"Yes", "No"} : reset_to_original(reply)

InitEdit ==
  /\ variant = "gui"
  /\ folder = <<>>
  /\ run = NoFiles
  /\ files = NoFiles
  /\ similarity_data = NoData
  /\ results_msg = None
  /\ fx = FxIdle
  /\ frame = NoFrame
  /\ acc = AccIdle
  /\ lab = LabIdle
  /\ tab = TabIdle
  /\ page = PageIdle
  /\ home = HomeIdle

\* ImageModificationPage(image_path) with the path of the plain picture:
\* the constructor loads it.
InitCap ==
  /\ variant = "gui"
  /\ folder = <<>>
  /\ run = NoFiles
  /\ files = NoFiles
  /\ similarity_data = NoData
  /\ results_msg = None
  /\ fx = FxIdle
  /\ frame = NoFrame
  /\ acc = AccIdle
  /\ lab = LabIdle
  /\ tab = TabIdle
  /\ page = Replaced(PageIdle, load_image_body(PageIdle, "flat.png"), "load_image")
  /\ home = HomeIdle

NextCap == Edit

\* Any number of calls on the plain picture, which every operation maps to
\* itself while the size spin boxes keep the size load_image gave them.
SpecCap == InitCap /\ [][NextCap]_vars

\* No more than MaxEdits calls are followed.
Within == page.edits < MaxEdits

NextEdit ==
  \/ Within /\ \E path \in Paths : load_image(path)
  \/ Within /\ \E w, h \in Sides : size_changed(w, h)
  \/ Within /\ \E d \in {90, 0 - 90} : rotate_image(d)
  \/ Within /\ flip_horizontal
  \/ Within /\ flip_vertical
  \/ Within /\ resize_image
  \/ Within /\ \E v \in SliderValues : brightness_changed(v)
  \/ Within /\ apply_adjustments
  \/ Within /\ \E f \in FilterNames, r \in BlurRadii : apply_filter(f, r)
  \/ Within /\ undo
  \/ Within /\ redo
  \/ Within /\ \E reply \in {"Yes", "No"} : reset_to_original(reply)

SpecEdit == InitEdit /\ [][NextEdit]_vars

\* The page with all three adjustment sliders in use.
NextAdjust ==
  \/ Within /\ \E path \in Paths : load_image(path)
  \/ Within /\ \E v \in SliderValues : brightness_changed(v)
  \/ Within /\ \E v \in SliderValues : contrast_changed(v)
  \/ Within /\ \E v \in SliderValues : sharpness_changed(v)
  \/ Within /\ rotate_image(90)
  \/ Within /\ apply_adjustments
  \/ Within /\ \E r \in BlurRadii : apply_filter("Box Blur", r)
  \/ Within /\ \E reply \in {"Yes", "No"} : reset_to_original(reply)

SpecAdjust == InitEdit /\ [][NextAdjust]_vars

\* --------------------------------------------------------------- HomeTab

\* Largest number of files selected or dropped at once.
MaxSelect == 2

NotHome ==
  <<variant, folder, run, files, similarity_data, results_msg, fx, frame, acc,
    lab, tab, page>>

\* The files the user can select or drop; the last one is no image.
FilePool == {"a.png", "b.JPG", "c.gif", "notes.txt"}

\* os.path.isfile(file_path) and file_path.lower().endswith(image_extensions)
is_image_file(file_path) == file_path \in {"a.png", "b.JPG", "c.gif"}

RECURSIVE Selections(_)
Selections(n) ==
  IF n = 0 THEN { <<>> }
  ELSE { Append(l, f) : l \in Selections(n - 1), f \in FilePool }

In(x, list) == \E k \in 1..Len(list) : list[k] = x

\* _update_status_loaded(prefix)
_update_status_loaded(h, prefix) ==
  IF \/ Len(h.image_paths) = 0
     \/ h.current_index = NoIndex
     \/ h.current_image_path = None
  THEN [h EXCEPT !.status_label = <<prefix, "(0 loaded)">>]
  ELSE [h EXCEPT !.status_label =
          <<prefix, h.current_image_path, ToString(h.current_index + 1),
            ToString(Len(h.image_paths))>>]

\* _show_image_at_index(index), on a list indexed from 0.
_show_image_at_index(h, index) ==
  IF h.image_paths = <<>> THEN h
  ELSE IF index < 0 \/ index >= Len(h.image_paths) THEN h
  ELSE _update_status_loaded(
         [h EXCEPT !.current_index = index,
                   !.current_image_path = h.image_paths[index + 1]],
         "Ready to process images")

RECURSIVE Combine(_, _)
\* for p in new_paths: if p not in combined: combined.append(p)
Combine(combined, new_paths) ==
  IF new_paths = <<>> THEN combined
  ELSE Combine(IF In(Head(new_paths), combined) THEN combined
               ELSE Append(combined, Head(new_paths)),
               Tail(new_paths))

\* _ask_how_to_handle_existing(new_paths) with the button clicked: the final
\* list, the dialog not shown when no image is loaded.
_ask_how_to_handle_existing(h, new_paths, clicked) ==
  IF h.image_paths = <<>> THEN new_paths
  ELSE IF clicked = "yes" THEN new_paths
  ELSE Combine(h.image_paths, new_paths)

\* The index of the first image of the list that is among the new ones.
FirstNewIndex(h, new_paths) ==
  IF h.current_index # NoIndex /\ h.image_paths # <<>>
     /\ \E i \in 1..Len(h.image_paths) : In(h.image_paths[i], new_paths)
  THEN (CHOOSE i \in 1..Len(h.image_paths) :
          /\ In(h.image_paths[i], new_paths)
          /\ \A k \in 1..(i - 1) : ~In(h.image_paths[k], new_paths)) - 1
  ELSE 0

\* _handle_new_images(new_paths) with the button clicked in the dialog.
_handle_new_images(h, new_paths, clicked) ==
  IF new_paths = <<>>
  THEN [h EXCEPT !.status_label = <<"No valid image files selected">>]
  ELSE IF h.image_paths # <<>> /\ clicked = "cancel"
  THEN [_update_status_loaded(h, "Upload canceled") EXCEPT !.answer = "cancel"]
  ELSE LET listed ==
             [h EXCEPT !.image_paths = _ask_how_to_handle_existing(h, new_paths, clicked),
                       !.answer = IF h.image_paths = <<>> THEN None ELSE clicked]
       IN _show_image_at_index(listed, FirstNewIndex(listed, new_paths))

\* upload_images with the files picked in the file dialog (none when the
\* dialog is cancelled) and the button clicked in the question box.
upload_images(file_paths, clicked) ==
  /\ home' =
       IF file_paths = <<>>
       THEN [home EXCEPT !.op = "upload_images", !.answer = "cancel"]
       ELSE [_handle_new_images([home EXCEPT !.answer = None],
                                SelectSeq(file_paths, is_image_file), clicked)
               EXCEPT !.op = "upload_images"]
  /\ UNCHANGED NotHome

\* dropEvent with the dropped files.
dropEvent(urls, clicked) ==
  /\ home' = [_handle_new_images([home EXCEPT !.answer = None],
                                 SelectSeq(urls, is_image_file), clicked)
                EXCEPT !.op = "dropEvent"]
  /\ UNCHANGED NotHome

\* A clear that empties the list and keeps the cursor.
clear_images_keep ==
  /\ home' = [_update_status_loaded([home EXCEPT !.image_paths = <<>>],
                                    "Ready to process images")
                EXCEPT !.op = "clear_images", !.answer = None]
  /\ UNCHANGED NotHome

clear_images ==
  /\ home' = [_update_status_loaded(
                [home EXCEPT !.image_paths = <<>>,
                             !.current_image_path = None,
                             !.current_index = NoIndex],
                "Ready to process images")
                EXCEPT !.op = "clear_images", !.answer = None]
  /\ UNCHANGED NotHome

show_previous_image ==
  /\ home' =
       [(IF home.image_paths = <<>> \/ home.current_index = NoIndex
         THEN [home EXCEPT !.status_label = <<"No images loaded.">>]
         ELSE IF home.current_index <= 0
         THEN [home EXCEPT !.status_label = <<"This is the first image.">>]
         ELSE _show_image_at_index(home, home.current_index - 1))
          EXCEPT !.op = "show_previous_image", !.answer = None]
  /\ UNCHANGED NotHome

show_next_image ==
  /\ home' =
       [(IF home.image_paths = <<>> \/ home.current_index = NoIndex
         THEN [home EXCEPT !.status_label = <<"No images loaded.">>]
         ELSE IF home.current_index >= Len(home.image_paths) - 1
         THEN [home EXCEPT !.status_label = <<"This is the last image.">>]
         ELSE _show_image_at_index(home, home.current_index + 1))
          EXCEPT !.op = "show_next_image", !.answer = None]
  /\ UNCHANGED NotHome

\* The buttons clicked in the question box.
Buttons == {"yes", "no", "cancel"}

InitHome ==
  /\ variant = "gui"
  /\ folder = <<>>
  /\ run = NoFiles
  /\ files = NoFiles
  /\ similarity_data = NoData
  /\ results_msg = None
  /\ fx = FxIdle
  /\ frame = NoFrame
  /\ acc = AccIdle
  /\ lab = LabIdle
  /\ tab = TabIdle
  /\ page = PageIdle
  /\ home = HomeIdle

NextHome ==
  \/ \E n \in 0..MaxSelect : \E sel \in Selections(n), b \in Buttons :
       upload_images(sel, b)
  \/ \E n \in 0..MaxSelect : \E sel \in Selections(n), b \in Buttons :
       dropEvent(sel, b)
  \/ clear_images
  \/ show_previous_image
  \/ show_next_image

SpecHome == InitHome /\ [][NextHome]_vars

\* ================================================================== claims

Supported == {"vgg16", "resnet50"}

UnsupportedError == "ValueError: Not an available model."

\* The name ends in ".jpg" in any mix of cases.
IsJpgName(nm) ==
  LET n == Len(nm) IN
  /\ n >= 4
  /\ nm[n - 3] = "."
  /\ nm[n - 2] \in {"j", "J"}
  /\ nm[n - 1] \in {"p", "P"}
  /\ nm[n] \in {"g", "G"}

JpgIndices == { i \in 1..Len(folder) : IsJpgName(folder[i].name) }

\* The k-th .jpg entry of the folder, in listing order.
KthJpg(k) ==
  CHOOSE i \in JpgIndices : Cardinality({ h \in JpgIndices : h < i }) = k - 1

HasNoJpg == JpgIndices = {}

HasCorruptJpg == \E i \in JpgIndices : folder[i].data = Corrupt

WritesOf(r) == { p \in DOMAIN files : files[p].by = r }

\* C1: a run on a folder with no .jpg file fails with the no-images error
\* right after loading: no model load is attempted and no file is written.
C1_EmptyFolderFailsFast ==
  \A r \in DOMAIN run :
    (HasNoJpg /\ run[r].pc # "load") =>
      /\ run[r].pc = "failed"
      /\ run[r].raised = NoImagesError
      /\ run[r].stages = <<"load">>
      /\ run[r].model = None
      /\ run[r].opened = <<>>
      /\ WritesOf(r) = {}

C1_Witness ==
  /\ HasNoJpg
  /\ Len(folder) >= 1
  /\ run[1].pc = "failed"
  /\ run[1].raised = NoImagesError

\* C2: load_model called with an identifier other than vgg16 and resnet50
\* raises the unsupported-model error, returns no model and opens no image.
C2_UnsupportedModelRaises ==
  [][ (fx'.last = "load_model" /\ fx'.arg \notin Supported) =>
        /\ fx'.raised = UnsupportedError
        /\ fx'.model = fx.model
        /\ fx'.opened = fx.opened
        /\ fx'.images = fx.images ]_vars

C2_Witness ==
  /\ fx.last = "load_model"
  /\ fx.arg = "alexnet"
  /\ fx.raised = UnsupportedError
  /\ Len(fx.images) >= 2

\* C3 as stated: a run rejected for its model identifier has opened no image.
C3_RejectedBeforeAnyImage ==
  \A r \in DOMAIN run :
    run[r].raised = UnsupportedError => run[r].opened = <<>>

\* C3 amended: a run with an unsupported model identifier never loads a
\* model, extracts no features and writes no file; it is rejected by
\* load_model only after load_images opened every .jpg file of the folder.
C3_RejectedAfterLoading ==
  \A r \in DOMAIN run :
    run[r].model_name \notin Supported =>
      /\ run[r].pc \in {"load", "load_model", "failed"}
      /\ run[r].model = None
      /\ run[r].features = <<>>
      /\ WritesOf(r) = {}
      /\ run[r].raised = UnsupportedError =>
           /\ run[r].stages = <<"load", "load_model">>
           /\ Len(run[r].opened) = Cardinality(JpgIndices)
           /\ Len(run[r].opened) >= 1
           /\ \A k \in 1..Len(run[r].opened) :
                run[r].opened[k] = folder[KthJpg(k)].name

C3_Witness ==
  /\ run[1].model_name = "alexnet"
  /\ run[1].raised = UnsupportedError
  /\ Len(run[1].opened) >= 2

\* C4: row i and column i of the persisted CSV are labelled with the name of
\* the i-th image load_images returns and hold the similarities of that
\* image's feature vector.
C4_OrderPreserved ==
  \A r \in DOMAIN run :
    csv_path(run[r].result_name) \in DOMAIN files =>
      LET loaded == load_images(folder)
          csv == read_csv(files[csv_path(run[r].result_name)].text)
          N == Len(loaded.image_names)
          feat(i) == Embed(run[r].model, loaded.images[i])
      IN /\ csv.raised = None
         /\ csv.index_dtype = "object"
         /\ csv.values_dtype = "float64"
         /\ Len(csv.index) = N
         /\ Len(csv.columns) = N
         /\ Len(csv.values) = N
         /\ \A i \in 1..N :
              /\ csv.index[i] = loaded.image_names[i]
              /\ csv.columns[i] = loaded.image_names[i]
              /\ Len(csv.values[i]) = N
              /\ \A j \in 1..N : csv.values[i][j] = CosSim(feat(i), feat(j))

C4_Witness ==
  /\ run[1].pc = "done"
  /\ Len(folder) = 3
  /\ ~IsJpgName(folder[1].name)
  /\ Len(run[1].image_names) = 2
  /\ run[1].df.values[1][2] # 100
  /\ csv_path(run[1].result_name) \in DOMAIN files

\* C5: load_images returns as many names as images; the names are the
\* directory entries whose lower-cased name ends in ".jpg", each once, in
\* listing order, and image i is the image decoded from the file of name i.
C5_LoaderContract ==
  \A r \in DOMAIN run :
    (run[r].pc # "load" /\ run[r].raised # "DecodeFailure") =>
      /\ Len(run[r].images) = Len(run[r].image_names)
      /\ Len(run[r].image_names) = Cardinality(JpgIndices)
      /\ \A k \in 1..Len(run[r].image_names) :
           /\ run[r].image_names[k] = folder[KthJpg(k)].name
           /\ run[r].images[k] = ToThreeChannel(folder[KthJpg(k)].data)
      /\ \A k, h \in 1..Len(run[r].image_names) :
           k # h => run[r].image_names[k] # run[r].image_names[h]

C5_Witness ==
  /\ run[1].pc = "load_model"
  /\ Len(folder) = 3
  /\ Len(run[1].image_names) = 2
  /\ ~IsJpgName(folder[2].name)
  /\ \E k \in 1..2 : run[1].image_names[k] = <<"b", ".", "J", "P", "G">>

\* C6: when a .jpg file of the folder cannot be decoded, the run fails at
\* the load: it keeps no image, loads no model, writes no file and prints
\* nothing, however many images were decoded before the failing one.
C6_DecodeFailureIsFatal ==
  \A r \in DOMAIN run :
    (HasCorruptJpg /\ run[r].pc # "load") =>
      /\ run[r].pc = "failed"
      /\ run[r].raised = "DecodeFailure"
      /\ run[r].stages = <<"load">>
      /\ run[r].images = <<>>
      /\ run[r].model = None
      /\ run[r].stdout = <<>>
      /\ WritesOf(r) = {}

C6_Witness ==
  /\ run[1].pc = "failed"
  /\ run[1].raised = "DecodeFailure"
  /\ Len(run[1].opened) = 3
  /\ folder[1].data # Corrupt
  /\ folder[2].data # Corrupt

AllStages ==
  <<"load", "load_model", "extract", "compare", "csv", "heatmap", "print">>

IsPrefix(s, t) == Len(s) <= Len(t) /\ s = SubSeq(t, 1, Len(s))

\* C7: the stages of a run execute at most once each and in pipeline order,
\* one at a time; a failed run never moves again; the success message is
\* printed only when both output files of the run are written.
C7_SingleLinearPass ==
  [][ \A r \in DOMAIN run :
        /\ IsPrefix(run'[r].stages, AllStages)
        /\ IsPrefix(run[r].stages, run'[r].stages)
        /\ Len(run'[r].stages) <= Len(run[r].stages) + 1
        /\ run[r].pc \in {"failed", "done"} => run'[r] = run[r]
        /\ run'[r].stdout # <<>> =>
             /\ csv_path(run[r].result_name) \in DOMAIN files'
             /\ heat_path(run[r].result_name) \in DOMAIN files'
             /\ run[r].pc \in {"print", "done"} ]_vars

C7_Witness ==
  /\ run[1].pc = "done"
  /\ run[1].stages = AllStages
  /\ run[1].stdout # <<>>

\* C8: a labelled similarity matrix written by save_to_csv and read back by
\* load_similarity_csv has the same row labels, the same column labels and
\* the same values, in the same order.
C8_CsvRoundTrip ==
  results_msg # None =>
    /\ results_msg = "Success"
    /\ similarity_data.index_dtype = "object"
    /\ similarity_data.index = frame.index
    /\ similarity_data.columns = frame.columns
    /\ similarity_data.values_dtype = "float64"
    /\ similarity_data.values = frame.values

C8_Witness ==
  /\ results_msg = "Success"
  /\ Len(frame.index) = 2
  /\ frame.index[2] = <<"a", ",", "b", ".", "j", "p", "g">>
  /\ frame.values[1][2] = -5
  /\ frame.values[2][1] = 50
  /\ similarity_data.values = frame.values

Compared(r) == Len(run[r].stages) >= 4

Pairs == { p \in (1..Len(acc.labels)) \X (1..Len(acc.labels)) : p[1] < p[2] }

SamePairs == { p \in Pairs : acc.labels[p[1]] = acc.labels[p[2]] }

DiffPairs == Pairs \ SamePairs

SimOf(p) == acc.sim_matrix[p[1]][p[2]]

\* The a-th smallest similarity of the different-label pairs.
DiffRank(a) ==
  CHOOSE v \in { SimOf(p) : p \in DiffPairs } :
    /\ Cardinality({ p \in DiffPairs : SimOf(p) < v }) < a
    /\ a <= Cardinality({ p \in DiffPairs : SimOf(p) <= v })

\* Twice the median of the different-label similarities.
TwiceMedian ==
  LET k == Cardinality(DiffPairs)
  IN DiffRank((k + 1) \div 2) + DiffRank(k \div 2 + 1)

Occurrences(seq, v) == Cardinality({ i \in 1..Len(seq) : seq[i] = v })

HasDot(nm) == \E i \in 1..Len(nm) : nm[i] = "."

FirstDot(nm) == CHOOSE i \in 1..Len(nm) : nm[i] = "." /\ \A h \in 1..(i - 1) : nm[h] # "."

\* The number of characters between the first "." and the next one (or
\* the end of the name).
SecondSegmentLen(nm) ==
  Cardinality({ k \in 1..Len(nm) :
                  /\ k > FirstDot(nm)
                  /\ \A h \in (FirstDot(nm) + 1)..k : nm[h] # "." })

\* C13: extract_labels returns one label per name, in order, the first four
\* characters of the name's second "."-delimited segment; a name without a
\* "." makes it raise IndexError and return no labels.
C13_LabelContract ==
  lab.called =>
    IF \A i \in 1..Len(lab.image_names) : HasDot(lab.image_names[i])
    THEN /\ lab.raised = None
         /\ Len(lab.labels) = Len(lab.image_names)
         /\ \A i \in 1..Len(lab.image_names) :
              LET nm == lab.image_names[i]
                  n == SecondSegmentLen(nm)
              IN /\ Len(lab.labels[i]) = (IF n < 4 THEN n ELSE 4)
                 /\ \A k \in 1..Len(lab.labels[i]) :
                      lab.labels[i][k] = nm[FirstDot(nm) + k]
    ELSE /\ lab.raised = "IndexError"
         /\ lab.labels = <<>>

C13_Witness ==
  /\ lab.called
  /\ lab.raised = None
  /\ Len(lab.labels) = 3
  /\ lab.labels[1] = <<"c", "a", "t", "1">>
  /\ lab.labels[2] = <<"j", "p", "g">>
  /\ lab.labels[3] = <<>>

\* C14 as stated: when the analysis started by on_apply fails, the status
\* shown does not contain the message of the error that made it fail.
C14_FailureStatusHidesError ==
  (~tab.running /\ DOMAIN run = {1} /\ run[1].pc = "failed") =>
    \A k \in 1..Len(tab.status_label) :
      tab.status_label[k] # ExcMessage(run[1].raised)

\* C15: once an image is loaded the history holds between 1 and 50 entries
\* and history_index points into it; after more than 50 permanent
\* operations in a row the history holds exactly 50 entries and the index
\* is 49.
C15_HistoryBounds ==
  page.current_image # NoImage =>
    /\ 1 <= Len(page.history)
    /\ Len(page.history) <= 50
    /\ 0 <= page.history_index
    /\ page.history_index <= Len(page.history) - 1
    /\ page.streak > 50 =>
         /\ Len(page.history) = 50
         /\ page.history_index = 49

C15_Witness ==
  /\ page.streak > 50
  /\ Len(page.history) = 50
  /\ page.history_index = 49
  /\ page.op = "resize_image"

\* C16: a permanent operation performed while forward history exists drops
\* all of it and leaves the index on the last entry, the new image; a redo
\* that follows changes neither the current image nor the history and
\* reports that there is nothing to redo.
C16_RedoBranchDiscarded ==
  [][ /\ (page'.kind = "permanent" /\ page.history_index < Len(page.history) - 1) =>
           /\ page'.history_index = Len(page'.history) - 1
           /\ Len(page'.history) = page.history_index + 2
           /\ SubSeq(page'.history, 1, page.history_index + 1)
                = SubSeq(page.history, 1, page.history_index + 1)
           /\ page'.history[Len(page'.history)] = page'.current_image
      /\ (page.kind = "permanent" /\ page.cut /\ page'.op = "redo") =>
           /\ page'.current_image = page.current_image
           /\ page'.history = page.history
           /\ page'.history_index = page.history_index
           /\ page'.status_label = <<"Nothing to redo">> ]_vars

C16_Witness ==
  /\ page.op = "redo"
  /\ page.prior.kind = "permanent"
  /\ page.cut
  /\ page.status_label = <<"Nothing to redo">>
  /\ Len(page.history) = 2
  /\ page.history[2] # page.history[1]
  /\ page.current_image = page.history[2]

\* C17 as stated: an undo right after a permanent operation or an applied
\* filter makes the current image the image that was current before it.
C17_UndoRevertsLastModification ==
  [][ (page.kind \in {"permanent", "filter"} /\ page'.op = "undo") =>
        page'.current_image = page.prior.image ]_vars

\* C18: right after a permanent operation, an undo and then a redo bring
\* back the image that was current before the undo, and neither changes the
\* history list.
C18_UndoRedoRoundTrip ==
  [][ /\ (page.kind = "permanent" /\ page'.op = "undo") =>
           /\ page'.history = page.history
           /\ page'.status_label = <<"Undo">>
      /\ (page.op = "undo" /\ page.prior.kind = "permanent" /\ page'.op = "redo") =>
           /\ page'.current_image = page.prior.image
           /\ page'.history = page.history
           /\ page'.status_label = <<"Redo">> ]_vars

C18_Witness ==
  /\ page.op = "redo"
  /\ page.prior.kind = "other"
  /\ page.status_label = <<"Redo">>
  /\ Len(page.history) = 2
  /\ page.history_index = 1
  /\ page.current_image = page.history[2]
  /\ page.current_image.size = <<1, 1>>
  /\ page.prior.image = page.history[1]
  /\ page.prior.image.size = <<2, 1>>

\* C19 as stated: apply_adjustments right after a permanent operation that
\* followed the computing of a preview leaves the current image and the
\* history as that operation left them.
C19_StalePreviewIgnored ==
  [][ (/\ page.kind = "permanent"
       /\ page.op # "apply_adjustments"
       /\ page.modified_image # NoImage
       /\ page'.op = "apply_adjustments") =>
        /\ page'.current_image = page.current_image
        /\ page'.history = page.history ]_vars

\* C20: each application of a filter yields the filter applied once, with
\* the radius then selected, to the image that was current before the first
\* of the applications in succession (the current image as last set by
\* anything but a filter), and pre_filter_image is that image.
C20_FiltersDoNotStack ==
  [][ page'.kind = "filter" =>
        /\ page'.pre_filter_image = page.base
        /\ page'.base = page.base
        /\ \E r \in BlurRadii :
             /\ page'.status_label = <<"Applied Box Blur", ToString(r)>>
             /\ page'.current_image = BoxBlur(page.base, r) ]_vars

C20_Witness ==
  /\ page.kind = "filter"
  /\ page.prior.kind = "filter"
  /\ page.base = Pictures["pattern.png"]
  /\ page.pre_filter_image = page.base
  /\ page.prior.image = BoxBlur(page.base, 1)
  /\ page.current_image = BoxBlur(page.base, 2)
  /\ page.current_image # BoxBlur(page.prior.image, 2)

\* C21 as stated: when filters were applied since the last permanent
\* operation, applying the filter choice None makes the current image the
\* image that was current before the first of those filters.
C21_NoneRevertsToPreFilter ==
  [][ (/\ page.first # NoImage
       /\ page'.op = "apply_filter"
       /\ page'.kind = "other") =>
        page'.current_image = page.first ]_vars

\* The operations that replace the image for good.
PermanentOps ==
  {"rotate_image", "flip_horizontal", "flip_vertical", "resize_image",
   "apply_adjustments", "reset_to_original", "load_image"}

\* C22: right after a completed rotate_image, flip_horizontal,
\* flip_vertical, resize_image, applied apply_adjustments, confirmed
\* reset_to_original or successful load_image, pre_filter_image is None.
C22_PermanentClearsPreFilter ==
  [][ (page'.perm /\ page'.op \in PermanentOps) =>
        page'.pre_filter_image = NoImage ]_vars

C22_Witness ==
  /\ page.perm
  /\ page.op = "rotate_image"
  /\ page.prior.kind = "filter"
  /\ page.prior.image = BoxBlur(Pictures["pattern.png"], 2)
  /\ page.pre_filter_image = NoImage

\* C23: a reset_to_original answered No leaves the images, the history, the
\* index and the sliders as they were; answered Yes it makes the current
\* image the original image, the history that one image, the index 0, the
\* three sliders 100 and pre_filter_image None.
C23_ResetOnlyWhenConfirmed ==
  [][ page'.op = "reset_to_original" =>
        IF page'.perm
        THEN /\ page'.original_image = page.original_image
             /\ page'.current_image = page.original_image
             /\ page'.history = <<page.original_image>>
             /\ page'.history_index = 0
             /\ page'.brightness_slider = 100
             /\ page'.contrast_slider = 100
             /\ page'.sharpness_slider = 100
             /\ page'.pre_filter_image = NoImage
        ELSE /\ page'.original_image = page.original_image
             /\ page'.current_image = page.current_image
             /\ page'.history = page.history
             /\ page'.history_index = page.history_index
             /\ page'.pre_filter_image = page.pre_filter_image
             /\ page'.brightness_slider = page.brightness_slider
             /\ page'.contrast_slider = page.contrast_slider
             /\ page'.sharpness_slider = page.sharpness_slider ]_vars

\* A confirmed reset of a rotated picture whose preview had been computed
\* with a slider off 100.
C23_Witness ==
  /\ page.op = "reset_to_original"
  /\ page.perm
  /\ page.prior.image = Rotate(Pictures["pattern.png"], 270)
  /\ page.prior.kind = "other"
  /\ page.current_image = Pictures["pattern.png"]
  /\ page.modified_image = page.current_image
  /\ page.history = <<page.current_image>>
  /\ page.contrast_slider = 100

\* The interpolation methods the Resize help dialog offers.
InterpolationMethods == {"Lanczos", "Bicubic", "Bilinear", "Nearest"}

\* One line of pixels resampled by a method: the three convolution filters
\* weigh the two pixels of a line equally when it shrinks to one, Nearest
\* takes the pixel under the centre of the new one, which is the second.
ResampleBy(method, line, n) ==
  IF method = "Nearest" /\ n = 1 /\ Len(line) = 2 THEN <<line[2]>>
  ELSE ResampleLine(line, n)

\* Image.resize((w, h), method)
ResizeBy(method, img, w, h) ==
  LET rows == [r \in 1..Height(img) |-> ResampleBy(method, img.px[r], w)]
      col(c) == ResampleBy(method, [r \in 1..Height(img) |-> rows[r][c]], h)
  IN [size |-> <<w, h>>, px |-> [r \in 1..h |-> [c \in 1..w |-> col(c)[r]]]]

\* C24 as stated: resize_image makes the current image the image resized to
\* the size of the spin boxes by the selected interpolation method,
\* whichever of the four is selected, adds one history entry (the second
\* one on a freshly loaded image) and leaves pre_filter_image None.
C24_ResizeUsesSelectedMethod ==
  [][ page'.op = "resize_image" =>
        /\ \A m \in InterpolationMethods :
             page'.current_image
               = ResizeBy(m, page.current_image, page.width_spin, page.height_spin)
        /\ page'.history[page'.history_index + 1] = page'.current_image
        /\ Len(page'.history) = page'.history_index + 1
        /\ (page.op = "load_image" /\ page.perm) =>
             (Len(page'.history) = 2 /\ page'.history_index = 1)
        /\ page'.pre_filter_image = NoImage ]_vars

\* C25: a load_image whose file cannot be opened shows the error box and
\* leaves original_image, current_image, history, history_index and
\* pre_filter_image as they were.
C25_FailedLoadKeepsState ==
  [][ (page'.op = "load_image" /\ ~page'.perm) =>
        /\ page'.dialog = <<"Error", "Failed to load image">>
        /\ page'.original_image = page.original_image
        /\ page'.current_image = page.current_image
        /\ page'.history = page.history
        /\ page'.history_index = page.history_index
        /\ page'.pre_filter_image = page.pre_filter_image ]_vars

\* A failed load on a page that holds a rotated and filtered picture.
C25_Witness ==
  /\ page.op = "load_image"
  /\ ~page.perm
  /\ page.image_path = "broken.png"
  /\ page.dialog = <<"Error", "Failed to load image">>
  /\ page.original_image = Pictures["pattern.png"]
  /\ page.pre_filter_image = Rotate(Pictures["pattern.png"], 270)
  /\ page.current_image = BoxBlur(page.pre_filter_image, 1)
  /\ Len(page.history) = 2

\* C26: a successful load_image makes original_image the image of the file,
\* and no other call (rotate, flip, resize, a slider's update_preview,
\* apply_adjustments, apply_filter, undo, redo, a reset, a failed load)
\* changes original_image.
C26_OriginalImageKept ==
  [][ IF page'.op = "load_image" /\ page'.perm
      THEN page'.original_image = Pictures[page'.image_path]
      ELSE page'.original_image = page.original_image ]_vars

\* Adjustments applied to a rotated picture, the original still as loaded.
C26_Witness ==
  /\ page.op = "apply_adjustments"
  /\ page.kind = "permanent"
  /\ page.original_image = Pictures["pattern.png"]
  /\ Len(page.history) = 3
  /\ page.history[2] = Rotate(page.original_image, 270)
  /\ page.current_image = Brightness(page.history[2], 200)

\* A run that reported success: the batch script printed its last line, the
\* GUI call returned without an exception.
Succeeded(r) == run[r].pc = "done"

\* C27: a run about to write its CSV or its heatmap can always do so,
\* wherever the other run stands, and the write replaces what the other run
\* wrote under the same name; once both runs have succeeded, each of the
\* two files holds the output of one of them, not necessarily the same one.
C27_WritesNotExcluded ==
  /\ \A r \in DOMAIN run :
       /\ run[r].pc = "csv" => ENABLED PersistCsv(r)
       /\ run[r].pc = "heatmap" => ENABLED RenderHeatmap(r)
  /\ (\A r \in DOMAIN run : Succeeded(r)) =>
       /\ \E r \in DOMAIN run :
            files[csv_path(<<"r", "A">>)].text = to_csv(run[r].df)
       /\ \E r \in DOMAIN run :
            files[heat_path(<<"r", "A">>)].image = run[r].df

\* Both runs succeeded; the CSV is the first run's, the heatmap the second
\* run's, and the two differ.
C27_Witness ==
  /\ \A r \in DOMAIN run : Succeeded(r)
  /\ run[1].df # run[2].df
  /\ files[csv_path(<<"r", "A">>)].by = 1
  /\ files[csv_path(<<"r", "A">>)].text = to_csv(run[1].df)
  /\ files[csv_path(<<"r", "A">>)].text # to_csv(run[2].df)
  /\ files[heat_path(<<"r", "A">>)].by = 2
  /\ files[heat_path(<<"r", "A">>)].image = run[2].df

\* The number of "." in a name.
Dots(nm) == Cardinality({ i \in 1..Len(nm) : nm[i] = "." })

\* The extension of a name the loader delivered: the three characters the
\* suffix filter matched after the last ".".
Extension(nm) == SubSeq(nm, Len(nm) - 2, Len(nm))

Blank(s) == \A i \in 1..Len(s) : s[i] = " "

\* C29: a click on Apply reports the first failing check among model,
\* folder and name, in that order, and then starts no run and writes no
\* file; with all three in place it starts the run with the selected model
\* and the stripped name.  Whenever on_apply has returned, the status is a
\* validation message, "Analysis Complete" after a run that succeeded or
\* an error message after one that failed, never "Running analysis...".
C29_ApplyChecksAndStatus ==
  [][ /\ ~tab.running =>
           IF ~tab.vg_button /\ ~tab.res_button
           THEN /\ tab'.status_label = <<"Please select a model">>
                /\ ~tab'.running /\ run' = run /\ files' = files
           ELSE IF tab.selected_folder = ""
           THEN /\ tab'.status_label = <<"Please select an image folder">>
                /\ ~tab'.running /\ run' = run /\ files' = files
           ELSE IF Blank(tab.name_input)
           THEN /\ tab'.status_label = <<"Enter name for result files">>
                /\ ~tab'.running /\ run' = run /\ files' = files
           ELSE /\ tab'.running
                /\ run'[1].pc = "load"
                /\ run'[1].model_name = (IF tab.vg_button THEN "vgg16" ELSE "resnet50")
                /\ ~Blank(run'[1].result_name)
                /\ Head(run'[1].result_name) # " "
      /\ (tab.running /\ ~tab'.running) =>
           IF run[1].pc = "done"
           THEN tab'.status_label = <<"Analysis Complete">>
           ELSE /\ run[1].pc = "failed"
                /\ Len(tab'.status_label) = 2
                /\ tab'.status_label[1] = "Error: "
      /\ ~tab'.running => tab'.status_label # <<"Running analysis...">> ]_vars

\* on_apply returned after a run that failed at its first statement.
C29_Witness ==
  /\ ~tab.running
  /\ DOMAIN run = {1}
  /\ run[1].pc = "failed"
  /\ run[1].raised = NoImagesError
  /\ tab.status_label[1] = "Error: "
  /\ tab.res_button
  /\ files = NoFiles

\* The list and its cursor agree: no images and no cursor, or a cursor
\* inside the list on the path it names.
Cursor(h) ==
  IF h.image_paths = <<>>
  THEN h.current_index = NoIndex /\ h.current_image_path = None
  ELSE /\ 0 <= h.current_index
       /\ h.current_index < Len(h.image_paths)
       /\ h.current_image_path = h.image_paths[h.current_index + 1]

SameImages(h1, h2) ==
  /\ h1.image_paths = h2.image_paths
  /\ h1.current_index = h2.current_index
  /\ h1.current_image_path = h2.current_image_path

\* C30: before and after every upload, drop, clear and navigation the list
\* and its cursor agree; next on the last image, previous on the first
\* image and a cancelled upload or drop leave the list, the index and the
\* path as they were.
C30_HomeCursor ==
  [][ /\ Cursor(home)
      /\ Cursor(home')
      /\ (/\ home'.op = "show_next_image"
          /\ home.image_paths # <<>>
          /\ home.current_index = Len(home.image_paths) - 1) =>
           SameImages(home, home')
      /\ (/\ home'.op = "show_previous_image"
          /\ home.image_paths # <<>>
          /\ home.current_index = 0) =>
           SameImages(home, home')
      /\ (/\ home'.op \in {"upload_images", "dropEvent"}
          /\ home'.answer = "cancel") =>
           SameImages(home, home') ]_vars

\* Next on the last of three images, the list built by keeping the old
\* images.
C30_Witness ==
  /\ home.op = "show_next_image"
  /\ home.status_label = <<"This is the last image.">>
  /\ home.image_paths = <<"b.JPG", "a.png", "c.gif">>
  /\ home.current_index = 2
  /\ home.current_image_path = "c.gif"

====
